---- MODULE Spec2Model ----
(***************************************************************************)
(* Model of the 6502 interpreter core of nes-rs (nes-core/src/cpu.rs,      *)
(* nes-core/src/lib.rs).                                                   *)
(*                                                                         *)
(* The processor is a record `c` with the fields of `struct CPU`; every    *)
(* method `fn m(&mut self, ..)` is an operator m(c, ..) that returns the   *)
(* record after the call.  `memory` is the byte array [u8; 0xFFFF] kept    *)
(* sparsely: a function whose domain is the set of addresses holding a     *)
(* non-zero byte (every other index below MEM_SIZE holds 0).               *)
(***************************************************************************)
EXTENDS Integers, Sequences, FiniteSets, TLC

VARIABLES
    pc, reg_a, sp, index_reg_x, index_reg_y, status, memory,  \* struct CPU
    phase,            \* where the caller / the loop of run_with_callback is
    user_hook,        \* TRUE: the run's callback is caller code; FALSE: run()'s |_| Ok(())
    overflow_checks,  \* the build: "on" = an arithmetic overflow panics (debug profile),
                      \* "off" = it wraps (release profile), "unobserved" = no operation
                      \* has overflowed yet, so the run fits either build
    loads, runs,      \* number of load / run calls made so far
    outcome,          \* what the last run_with_callback returned ("none" until it returns)
    hooks, fetches, executed,   \* per-run counters (history)
    writes,           \* assignments caller code made to public fields (history)
    pre,              \* the CPU as it was before the last operation (history)
    last,             \* the last operation performed (history)
    trail             \* the last two steps of the run: each one's opcode, outcome and the
                      \* CPU before it (history)

cpu_vars == <<pc, reg_a, sp, index_reg_x, index_reg_y, status, memory>>
vars == <<pc, reg_a, sp, index_reg_x, index_reg_y, status, memory, phase, user_hook,
          overflow_checks, loads, runs, outcome, hooks, fetches, executed, writes, pre, last,
          trail>>

(***************************************************************************)
(* Bounds of the model.                                                    *)
(***************************************************************************)
MaxLoads == 1
MaxRuns == 1
MaxSteps == 8
MaxWrites == 1
MaxNesSteps == 16
MaxCaseSteps == 12
MaxAluSteps == 1

(***************************************************************************)
(* Constants of cpu.rs.                                                    *)
(***************************************************************************)
NEGATIVE_BIT == 7
MSB == 7
STATUS_BIT_N == 7
STATUS_BIT_V == 6
STATUS_BIT_D == 3
STATUS_BIT_I == 2
STATUS_BIT_Z == 1
STATUS_BIT_C == 0
STACK_RESET == \hFD
STACK_BASE == \h0100
MEM_SIZE == \hFFFF
PROGRAM_START == \h0600
RESET_VECTOR == \hFFFC

Byte == 0..255
U16 == 65536

(***************************************************************************)
(* u8 / u16 arithmetic and the bit_field crate's get_bit / set_bit.        *)
(***************************************************************************)
wrapping_add8(a, b) == (a + b) % 256
wrapping_sub8(a, b) == (a - b + 256) % 256
wrapping_add16(a, b) == (a + b) % U16

get_bit(v, i) == (v \div (2 ^ i)) % 2 = 1

set_bit(v, i, b) ==
    LET cleared == IF get_bit(v, i) THEN v - 2 ^ i ELSE v
    IN  IF b THEN cleared + 2 ^ i ELSE cleared

BitOp(op(_, _), a, b) ==
    LET f[i \in 0..8] ==
            IF i = 8 THEN 0
            ELSE (IF op(get_bit(a, i), get_bit(b, i)) THEN 2 ^ i ELSE 0) + f[i + 1]
    IN  f[0]

AndBit(x, y) == x /\ y
OrBit(x, y) == x \/ y
XorBit(x, y) == x # y

BitAnd(a, b) == BitOp(AndBit, a, b)
BitOr(a, b) == BitOp(OrBit, a, b)
BitXor(a, b) == BitOp(XorBit, a, b)

\* `x as i8 as u16`: sign extension of a byte to 16 bits
SignExtend(b) == IF b >= 128 THEN b + \hFF00 ELSE b

(***************************************************************************)
(* CPU::new                                                                *)
(***************************************************************************)
new ==
    [pc |-> 0, reg_a |-> 0, sp |-> STACK_RESET, index_reg_x |-> 0, index_reg_y |-> 0,
     status |-> 0, memory |-> [a \in {} |-> 0]]

(***************************************************************************)
(* Memory.  An index >= MEM_SIZE panics (slice index out of bounds); the   *)
(* operators below give the value of an in-bounds access, the predicates   *)
(* OutOfBounds / ...Panics say when the access panics instead.             *)
(***************************************************************************)
OutOfBounds(addr) == addr >= MEM_SIZE

mem_read(c, addr) == IF addr \in DOMAIN c.memory THEN c.memory[addr] ELSE 0

mem_read_u16(c, addr) == mem_read(c, wrapping_add16(addr, 1)) * 256 + mem_read(c, addr)

\* mem_read(addr) or mem_read(addr + 1) is out of bounds (addr + 1 overflows
\* only for addr = 0xFFFF, where mem_read(addr) has already panicked)
mem_read_u16_panics(addr) == OutOfBounds(addr) \/ OutOfBounds(addr + 1)

StoreByte(m, addr, data) ==
    IF data = 0
    THEN [a \in DOMAIN m \ {addr} |-> m[a]]
    ELSE [a \in DOMAIN m \cup {addr} |-> IF a = addr THEN data ELSE m[a]]

mem_write(c, addr, data) == [c EXCEPT !.memory = StoreByte(c.memory, addr, data)]

mem_write_u16(c, addr, data) ==
    mem_write(mem_write(c, addr, data % 256), addr + 1, (data \div 256) % 256)

(***************************************************************************)
(* CPU::reset, CPU::load                                                   *)
(***************************************************************************)
\* mutant of reset: the stack pointer is not restored
reset_keeps_sp(c) ==
    [c EXCEPT !.reg_a = 0, !.index_reg_x = 0, !.status = 0,
              !.pc = mem_read_u16(c, RESET_VECTOR)]

reset(c) ==
    [c EXCEPT !.reg_a = 0, !.index_reg_x = 0, !.status = 0, !.sp = STACK_RESET,
              !.pc = mem_read_u16(c, RESET_VECTOR)]

\* A program (`program: &[u8]`) is kept as the memory is: its length and the function
\* from the indices (from 0) that hold a non-zero byte to that byte.
Slice(seq) ==
    [len |-> Len(seq),
     bytes |-> [i \in {j \in 0..(Len(seq) - 1) : seq[j + 1] # 0} |-> seq[i + 1]]]

ByteAt(program, i) == IF i \in DOMAIN program.bytes THEN program.bytes[i] ELSE 0

\* the range 0x0600..(0x0600 + program.len()) must lie within the array, else the
\* slice expression panics
load_panics(program) == PROGRAM_START + program.len > MEM_SIZE

\* self.memory[0x0600..(0x0600 + program.len())].copy_from_slice(program)
CopyFromSlice(m, program) ==
    LET inside(a) == a >= PROGRAM_START /\ a < PROGRAM_START + program.len
        written == {PROGRAM_START + i : i \in DOMAIN program.bytes}
        kept == {a \in DOMAIN m : ~inside(a)}
    IN  [a \in kept \cup written |->
            IF inside(a) THEN program.bytes[a - PROGRAM_START] ELSE m[a]]

\* mutant of load: the vector is written for a window at 0x8000
load_vector_8000(c, program) ==
    mem_write_u16([c EXCEPT !.memory = CopyFromSlice(c.memory, program)],
                  RESET_VECTOR, \h8000)

load(c, program) ==
    mem_write_u16([c EXCEPT !.memory = CopyFromSlice(c.memory, program)],
                  RESET_VECTOR, PROGRAM_START)

(***************************************************************************)
(* Stack                                                                   *)
(***************************************************************************)
\* the pair <<value, cpu after the pop>>
stack_top(r) == <<mem_read(r, STACK_BASE + r.sp), r>>
\* mutant of stack_pop: the byte is read before the stack pointer is incremented
stack_pop_then_increment(c) ==
    <<mem_read(c, STACK_BASE + c.sp), [c EXCEPT !.sp = wrapping_add8(c.sp, 1)]>>

stack_pop(c) == stack_top([c EXCEPT !.sp = wrapping_add8(c.sp, 1)])

stack_pop_hi(lo, hi) == <<hi[1] * 256 + lo[1], hi[2]>>
stack_pop_lo(lo) == stack_pop_hi(lo, stack_pop(lo[2]))
stack_pop_u16(c) == stack_pop_lo(stack_pop(c))

\* mutant of stack_push: saturating_sub in place of wrapping_sub
stack_push_saturating(c, data) ==
    [mem_write(c, STACK_BASE + c.sp, data) EXCEPT !.sp = IF c.sp = 0 THEN 0 ELSE c.sp - 1]

stack_push(c, data) ==
    [mem_write(c, STACK_BASE + c.sp, data) EXCEPT !.sp = wrapping_sub8(c.sp, 1)]

stack_push_u16(c, data) == stack_push(stack_push(c, (data \div 256) % 256), data % 256)

(***************************************************************************)
(* opcodes::OPCODES_MAP: opcode byte -> {mode, len}.  The table is the     *)
(* documented 6502 instruction set (151 opcodes), grouped by addressing    *)
(* mode; instructions without an operand address (implied, accumulator,    *)
(* relative, jumps) carry NoneAddressing.                                  *)
(***************************************************************************)
ImmediateCodes == {\h69, \h29, \hC9, \hE0, \hC0, \h49, \hA9, \hA2, \hA0, \h09, \hE9}
ZeroPageCodes ==
    {\h65, \h25, \h06, \h24, \hC5, \hE4, \hC4, \hC6, \h45, \hE6, \hA5, \hA6, \hA4, \h46,
     \h05, \h26, \h66, \hE5, \h85, \h86, \h84}
ZeroPageXCodes ==
    {\h75, \h35, \h16, \hD5, \hD6, \h55, \hF6, \hB5, \hB4, \h56, \h15, \h36, \h76, \hF5,
     \h95, \h94}
ZeroPageYCodes == {\hB6, \h96}
AbsoluteCodes ==
    {\h6D, \h2D, \h0E, \h2C, \hCD, \hEC, \hCC, \hCE, \h4D, \hEE, \hAD, \hAE, \hAC, \h4E,
     \h0D, \h2E, \h6E, \hED, \h8D, \h8E, \h8C}
AbsoluteXCodes ==
    {\h7D, \h3D, \h1E, \hDD, \hDE, \h5D, \hFE, \hBD, \hBC, \h5E, \h1D, \h3E, \h7E, \hFD,
     \h9D}
AbsoluteYCodes == {\h79, \h39, \hD9, \h59, \hB9, \hBE, \h19, \hF9, \h99}
IndirectXCodes == {\h61, \h21, \hC1, \h41, \hA1, \h01, \hE1, \h81}
IndirectYCodes == {\h71, \h31, \hD1, \h51, \hB1, \h11, \hF1, \h91}
ImpliedCodes ==
    {\h0A, \h4A, \h2A, \h6A, \h00, \h18, \hD8, \h58, \hB8, \hCA, \h88, \hE8, \hC8, \hEA,
     \h48, \h08, \h68, \h28, \h40, \h60, \h38, \hF8, \h78, \hAA, \hA8, \hBA, \h8A, \h9A,
     \h98}
BranchCodes == {\h90, \hB0, \hF0, \h30, \hD0, \h10, \h50, \h70}
JumpCodes == {\h4C, \h6C, \h20}

TableCodes ==
    ImmediateCodes \cup ZeroPageCodes \cup ZeroPageXCodes \cup ZeroPageYCodes
    \cup AbsoluteCodes \cup AbsoluteXCodes \cup AbsoluteYCodes \cup IndirectXCodes
    \cup IndirectYCodes \cup ImpliedCodes \cup BranchCodes \cup JumpCodes

OPCODES_MAP ==
    [code \in TableCodes |->
        CASE code \in ImmediateCodes -> [mode |-> "Immediate", len |-> 2]
          [] code \in ZeroPageCodes -> [mode |-> "ZeroPage", len |-> 2]
          [] code \in ZeroPageXCodes -> [mode |-> "ZeroPage_X", len |-> 2]
          [] code \in ZeroPageYCodes -> [mode |-> "ZeroPage_Y", len |-> 2]
          [] code \in AbsoluteCodes -> [mode |-> "Absolute", len |-> 3]
          [] code \in AbsoluteXCodes -> [mode |-> "Absolute_X", len |-> 3]
          [] code \in AbsoluteYCodes -> [mode |-> "Absolute_Y", len |-> 3]
          [] code \in IndirectXCodes -> [mode |-> "Indirect_X", len |-> 2]
          [] code \in IndirectYCodes -> [mode |-> "Indirect_Y", len |-> 2]
          [] code \in ImpliedCodes -> [mode |-> "NoneAddressing", len |-> 1]
          [] code \in BranchCodes -> [mode |-> "NoneAddressing", len |-> 2]
          [] code \in JumpCodes -> [mode |-> "NoneAddressing", len |-> 3]]

(***************************************************************************)
(* CPU::get_operand_address                                                *)
(***************************************************************************)
\* mutant of zero_page_u16: the high byte is read at ptr + 1 without the byte wrap
zero_page_u16_crossing(c, ptr) == mem_read(c, ptr + 1) * 256 + mem_read(c, ptr)

\* lo = mem_read(ptr as u16), hi = mem_read(ptr.wrapping_add(1) as u16); hi << 8 | lo
zero_page_u16(c, ptr) == mem_read(c, wrapping_add8(ptr, 1)) * 256 + mem_read(c, ptr)

get_operand_address(c, mode) ==
    CASE mode = "Immediate" -> c.pc
      [] mode = "ZeroPage" -> mem_read(c, c.pc)
      [] mode = "Absolute" -> mem_read_u16(c, c.pc)
      [] mode = "ZeroPage_X" -> wrapping_add8(mem_read(c, c.pc), c.index_reg_x)
      [] mode = "ZeroPage_Y" -> wrapping_add8(mem_read(c, c.pc), c.index_reg_y)
      [] mode = "Absolute_X" -> wrapping_add16(mem_read_u16(c, c.pc), c.index_reg_x)
      [] mode = "Absolute_Y" -> wrapping_add16(mem_read_u16(c, c.pc), c.index_reg_y)
      [] mode = "Indirect_X" ->
            zero_page_u16(c, wrapping_add8(mem_read(c, c.pc), c.index_reg_x))
      [] mode = "Indirect_Y" ->
            wrapping_add16(zero_page_u16(c, mem_read(c, c.pc)), c.index_reg_y)

\* the reads of get_operand_address that index past the array, and panic!("")
get_operand_address_panics(c, mode) ==
    CASE mode = "Immediate" -> FALSE
      [] mode \in {"Absolute", "Absolute_X", "Absolute_Y"} -> mem_read_u16_panics(c.pc)
      [] mode \in {"ZeroPage", "ZeroPage_X", "ZeroPage_Y", "Indirect_X", "Indirect_Y"} ->
            OutOfBounds(c.pc)
      [] mode = "NoneAddressing" -> TRUE

\* a handler that resolves its operand address and then reads or writes it
operand_access_panics(c, mode) ==
    get_operand_address_panics(c, mode) \/ OutOfBounds(get_operand_address(c, mode))

(***************************************************************************)
(* Instruction handlers.  A value a handler computes once and uses more    *)
(* than once (`let value = ..`) is passed to a helper operator, so every   *)
(* handler reads its operand once, as the code does.                       *)
(***************************************************************************)
update_zero_and_negative_flags(c, reg) ==
    [c EXCEPT !.status =
        set_bit(set_bit(@, STATUS_BIT_Z, reg = 0), STATUS_BIT_N, get_bit(reg, NEGATIVE_BIT))]

\* self.reg_a = value; self.update_zero_and_negative_flags(self.reg_a)
set_reg_a(c, value) == update_zero_and_negative_flags([c EXCEPT !.reg_a = value], value)
set_index_reg_x(c, value) ==
    update_zero_and_negative_flags([c EXCEPT !.index_reg_x = value], value)
set_index_reg_y(c, value) ==
    update_zero_and_negative_flags([c EXCEPT !.index_reg_y = value], value)

\* self.mem_write(addr, value); self.update_zero_and_negative_flags(value)
write_back(c, addr, value) == update_zero_and_negative_flags(mem_write(c, addr, value), value)

\* mutant of set_carry: the whole status byte is assigned
set_carry_whole(c, b) == [c EXCEPT !.status = IF b THEN 1 ELSE 0]

\* self.status.set_bit(STATUS_BIT_C, b)
set_carry(c, b) == [c EXCEPT !.status = set_bit(@, STATUS_BIT_C, b)]

\* the operand byte: self.mem_read(self.get_operand_address(mode))
operand(c, mode) == mem_read(c, get_operand_address(c, mode))

\* mutant of lda: the flags are left stale
lda_stale_flags(c, mode) == [c EXCEPT !.reg_a = operand(c, mode)]

lda(c, mode) == set_reg_a(c, operand(c, mode))
ldx(c, mode) == set_index_reg_x(c, operand(c, mode))
ldy(c, mode) == set_index_reg_y(c, operand(c, mode))

sta(c, mode) == mem_write(c, get_operand_address(c, mode), c.reg_a)
stx(c, mode) == mem_write(c, get_operand_address(c, mode), c.index_reg_x)
sty(c, mode) == mem_write(c, get_operand_address(c, mode), c.index_reg_y)

\* mutant of overflow_bit: only the operand's sign is compared with the result's
overflow_bit_of_operand(result, value, a) == BitAnd(BitXor(result, value), \h80) # 0

\* ((result ^ value) & (result ^ self.reg_a) & 0x80) != 0
overflow_bit(result, value, a) ==
    BitAnd(BitAnd(BitXor(result, value), BitXor(result, a)), \h80) # 0

\* mutant of add_result: the overflow bit taken after `self.reg_a = result`
add_result_overwritten(c, value, wide) ==
    set_reg_a([c EXCEPT !.status =
                  set_bit(set_bit(@, STATUS_BIT_C, wide > \hFF),
                          STATUS_BIT_V, overflow_bit(wide % 256, value, wide % 256))],
              wide % 256)

\* adc / sbc from `let result = u16::from(value) + u16::from(self.reg_a) + c` on
add_result(c, value, wide) ==
    set_reg_a([c EXCEPT !.status =
                  set_bit(set_bit(@, STATUS_BIT_C, wide > \hFF),
                          STATUS_BIT_V, overflow_bit(wide % 256, value, c.reg_a))],
              wide % 256)

\* mutant of carry_in: the carry is taken from status bit 4
carry_in_bit4(c) == IF get_bit(c.status, 4) THEN 1 ELSE 0

\* `let c = u16::from(self.status.get_bit(STATUS_BIT_C))`
carry_in(c) == IF get_bit(c.status, STATUS_BIT_C) THEN 1 ELSE 0

\* mutant of add_value: the carry flag is not added in
add_value_without_carry(c, value) == add_result(c, value, value + c.reg_a)

add_value(c, value) == add_result(c, value, value + c.reg_a + carry_in(c))

adc(c, mode) == add_value(c, operand(c, mode))

\* mutant of neg_minus_one: the two's complement, without the wrapping_sub(1)
neg_only(value) == wrapping_sub8(0, value)

\* (value as i8).wrapping_neg().wrapping_sub(1) as u8
neg_minus_one(value) == wrapping_sub8(wrapping_sub8(0, value), 1)

\* mutant of sbc: the borrow is never taken
sbc_without_borrow(c, mode) ==
    add_value(set_carry(c, TRUE), neg_minus_one(operand(c, mode)))

sbc(c, mode) == add_value(c, neg_minus_one(operand(c, mode)))

and(c, mode) == set_reg_a(c, BitAnd(c.reg_a, operand(c, mode)))
eor(c, mode) == set_reg_a(c, BitXor(c.reg_a, operand(c, mode)))
ora(c, mode) == set_reg_a(c, BitOr(c.reg_a, operand(c, mode)))

shl(value) == (value * 2) % 256
shr(value) == value \div 2

asl_accumulator(c) == set_reg_a(set_carry(c, get_bit(c.reg_a, MSB)), shl(c.reg_a))

asl_value(c, addr, value) == write_back(set_carry(c, get_bit(value, MSB)), addr, shl(value))
asl_at(c, addr) == asl_value(c, addr, mem_read(c, addr))
asl(c, mode) == asl_at(c, get_operand_address(c, mode))

\* mutant of lsr_accumulator: an arithmetic shift, bit 7 kept
lsr_accumulator_arithmetic(c) ==
    set_reg_a(set_carry(c, get_bit(c.reg_a, 0)),
              shr(c.reg_a) + (IF get_bit(c.reg_a, MSB) THEN \h80 ELSE 0))

lsr_accumulator(c) == set_reg_a(set_carry(c, get_bit(c.reg_a, 0)), shr(c.reg_a))

lsr_value(c, addr, value) == write_back(set_carry(c, get_bit(value, 0)), addr, shr(value))
lsr_at(c, addr) == lsr_value(c, addr, mem_read(c, addr))
lsr(c, mode) == lsr_at(c, get_operand_address(c, mode))

\* mutant of tax: the flags are left stale
tax_stale_flags(c) == [c EXCEPT !.index_reg_x = c.reg_a]

tax(c) == set_index_reg_x(c, c.reg_a)
txa(c) == set_reg_a(c, c.index_reg_x)
\* mutant of inx: saturating_add in place of wrapping_add
inx_saturating(c) ==
    set_index_reg_x(c, IF c.index_reg_x = \hFF THEN \hFF ELSE c.index_reg_x + 1)

inx(c) == set_index_reg_x(c, wrapping_add8(c.index_reg_x, 1))
iny(c) == set_index_reg_y(c, wrapping_add8(c.index_reg_y, 1))
dex(c) == set_index_reg_x(c, wrapping_sub8(c.index_reg_x, 1))
dey(c) == set_index_reg_y(c, wrapping_sub8(c.index_reg_y, 1))

dec_at(c, addr) == write_back(c, addr, wrapping_sub8(mem_read(c, addr), 1))
dec(c, mode) == dec_at(c, get_operand_address(c, mode))

inc_at(c, addr) == write_back(c, addr, wrapping_add8(mem_read(c, addr), 1))
inc(c, mode) == inc_at(c, get_operand_address(c, mode))

branch(c, cond) ==
    IF cond
    THEN [c EXCEPT !.pc = wrapping_add16(wrapping_add16(c.pc, 1),
                                         SignExtend(mem_read(c, c.pc)))]
    ELSE c

\* mutant of bit_value: V and N taken from the AND instead of the operand
bit_value_from_and(c, value) ==
    [c EXCEPT !.status =
        set_bit(set_bit(set_bit(@, STATUS_BIT_Z, BitAnd(c.reg_a, value) = 0),
                        STATUS_BIT_V, get_bit(BitAnd(c.reg_a, value), 6)),
                STATUS_BIT_N, get_bit(BitAnd(c.reg_a, value), 7))]

bit_value(c, value) ==
    [c EXCEPT !.status =
        set_bit(set_bit(set_bit(@, STATUS_BIT_Z, BitAnd(c.reg_a, value) = 0),
                        STATUS_BIT_V, get_bit(value, 6)),
                STATUS_BIT_N, get_bit(value, 7))]

bit(c, mode) == bit_value(c, operand(c, mode))

\* mutant of compare: carry only when the register is greater
compare_greater(c, reg, value) ==
    [c EXCEPT !.status =
        set_bit(set_bit(set_bit(@, STATUS_BIT_Z, reg = value),
                        STATUS_BIT_C, reg > value),
                STATUS_BIT_N, get_bit(wrapping_sub8(reg, value), MSB))]

\* the shared body of cmp, cpx and cpy once the compared register is fixed
compare(c, reg, value) ==
    [c EXCEPT !.status =
        set_bit(set_bit(set_bit(@, STATUS_BIT_Z, reg = value),
                        STATUS_BIT_C, reg >= value),
                STATUS_BIT_N, get_bit(wrapping_sub8(reg, value), MSB))]

cmp(c, mode) == compare(c, c.reg_a, operand(c, mode))
cpx(c, mode) == compare(c, c.index_reg_x, operand(c, mode))
cpy(c, mode) == compare(c, c.index_reg_y, operand(c, mode))

\* `let mut value = old << 1; value.set_bit(0, old.get_bit(MSB))`
rol_value(old) == set_bit(shl(old), 0, get_bit(old, MSB))
\* `let mut value = old >> 1; value.set_bit(MSB, old.get_bit(0))`
ror_value(old) == set_bit(shr(old), MSB, get_bit(old, 0))

rol_accumulator(c) == set_reg_a(set_carry(c, get_bit(c.reg_a, MSB)), rol_value(c.reg_a))

rol_old(c, addr, old) == write_back(set_carry(c, get_bit(old, MSB)), addr, rol_value(old))
rol_at(c, addr) == rol_old(c, addr, mem_read(c, addr))
rol(c, mode) == rol_at(c, get_operand_address(c, mode))

ror_accumulator(c) == set_reg_a(set_carry(c, get_bit(c.reg_a, 0)), ror_value(c.reg_a))

ror_old(c, addr, old) == write_back(set_carry(c, get_bit(old, 0)), addr, ror_value(old))
ror_at(c, addr) == ror_old(c, addr, mem_read(c, addr))
ror(c, mode) == ror_at(c, get_operand_address(c, mode))

set_pc(c, addr) == [c EXCEPT !.pc = addr]

\* the push is made first, the target is read after it
jsr_pushed(r) == set_pc(r, mem_read_u16(r, r.pc))
jsr(c) == jsr_pushed(stack_push_u16(c, (c.pc + 2 - 1) % U16))

\* popped: <<value, cpu after the pop>>
\* mutant of rti_pc: the + 1 of rts applied to the popped address
rti_pc_plus_one(p) == set_pc(p[2], wrapping_add16(p[1], 1))

rti_pc(p) == set_pc(p[2], p[1])
rti_status(s) == rti_pc(stack_pop_u16([s[2] EXCEPT !.status = s[1]]))
rti(c) == rti_status(stack_pop(c))

rts_pc(p) == set_pc(p[2], wrapping_add16(p[1], 1))
rts(c) == rts_pc(stack_pop_u16(c))

\* mutant of pla_popped: Zero and Negative are set from the pulled byte
pla_popped_with_flags(p) == set_reg_a(p[2], p[1])

\* `self.reg_a = self.stack_pop()`
pla_popped(p) == [p[2] EXCEPT !.reg_a = p[1]]
pla(c) == pla_popped(stack_pop(c))

plp_popped(p) == [p[2] EXCEPT !.status = p[1]]
plp(c) == plp_popped(stack_pop(c))

jmp_absolute(c) == set_pc(c, mem_read_u16(c, c.pc))

indirect_ref(c, addr) ==
    IF addr % 256 = \hFF
    THEN mem_read(c, addr - (addr % 256)) * 256 + mem_read(c, addr)
    ELSE mem_read_u16(c, addr)

jmp_indirect(c) == set_pc(c, indirect_ref(c, mem_read_u16(c, c.pc)))

(***************************************************************************)
(* The dispatch `match code { .. }` of run_with_callback.  Arm names the   *)
(* arm an opcode byte selects; "todo" is the final `_ => todo!()`.         *)
(***************************************************************************)
Arm(code) ==
    CASE code \in {\hA9, \hA5, \hB5, \hAD, \hBD, \hB9, \hA1, \hB1} -> "lda"
      [] code \in {\hA2, \hA6, \hB6, \hAE, \hBE} -> "ldx"
      [] code \in {\hA0, \hA4, \hB4, \hAC, \hBC} -> "ldy"
      [] code \in {\h85, \h95, \h8D, \h9D, \h99, \h81, \h91} -> "sta"
      [] code \in {\h86, \h96, \h8E} -> "stx"
      [] code \in {\h84, \h94, \h8C} -> "sty"
      [] code \in {\h69, \h65, \h75, \h6D, \h7D, \h79, \h61, \h71} -> "adc"
      [] code \in {\h29, \h25, \h35, \h2D, \h3D, \h39, \h21, \h31} -> "and"
      [] code = \h0A -> "asl_accumulator"
      [] code \in {\h06, \h16, \h0E, \h1E} -> "asl"
      [] code = \h4A -> "lsr_accumulator"
      [] code \in {\h46, \h56, \h4E, \h5E} -> "lsr"
      [] code = \h90 -> "bcc"
      [] code = \hB0 -> "bcs"
      [] code = \hF0 -> "beq"
      [] code = \h30 -> "bmi"
      [] code = \hD0 -> "bne"
      [] code = \h10 -> "bpl"
      [] code = \h50 -> "bvc"
      [] code = \h70 -> "bvs"
      [] code \in {\h24, \h2C} -> "bit"
      [] code \in {\hC9, \hC5, \hD5, \hCD, \hDD, \hD9, \hC1, \hD1} -> "cmp"
      [] code \in {\hE0, \hE4, \hEC} -> "cpx"
      [] code \in {\hC0, \hC4, \hCC} -> "cpy"
      [] code \in {\hC6, \hD6, \hCE, \hDE} -> "dec"
      [] code \in {\hE6, \hF6, \hEE, \hFE} -> "inc"
      [] code = \hCA -> "dex"
      [] code = \h88 -> "dey"
      [] code \in {\h49, \h45, \h55, \h4D, \h5D, \h59, \h41, \h51} -> "eor"
      [] code \in {\h09, \h05, \h15, \h0D, \h1D, \h19, \h01, \h11} -> "ora"
      [] code \in {\hE9, \hE5, \hF5, \hED, \hFD, \hF9, \hE1, \hF1} -> "sbc"
      [] code = \h2A -> "rol_accumulator"
      [] code \in {\h26, \h36, \h2E, \h3E} -> "rol"
      [] code = \h6A -> "ror_accumulator"
      [] code \in {\h66, \h76, \h6E, \h7E} -> "ror"
      [] code = \h18 -> "clc"
      [] code = \hD8 -> "cld"
      [] code = \h58 -> "cli"
      [] code = \h38 -> "sec"
      [] code = \hF8 -> "sed"
      [] code = \h78 -> "sei"
      [] code = \hAA -> "tax"
      [] code = \h8A -> "txa"
      [] code = \hE8 -> "inx"
      [] code = \hC8 -> "iny"
      [] code = \h20 -> "jsr"
      [] code = \h4C -> "jmp_absolute"
      [] code = \h6C -> "jmp_indirect"
      [] code = \h40 -> "rti"
      [] code = \h60 -> "rts"
      [] code = \h48 -> "pha"
      [] code = \h08 -> "php"
      [] code = \h68 -> "pla"
      [] code = \h28 -> "plp"
      [] code = \hEA -> "nop"
      [] code = \h00 -> "brk"
      [] OTHER -> "todo"

\* arms that take the operand's addressing mode
ModeArms ==
    {"lda", "ldx", "ldy", "sta", "stx", "sty", "adc", "and", "asl", "lsr", "bit", "cmp",
     "cpx", "cpy", "dec", "inc", "eor", "ora", "sbc", "rol", "ror"}

\* arms that end with `self.pc += (opcode.len - 1) as u16`
AdvancingArms ==
    {"lda", "ldx", "ldy", "sta", "stx", "sty", "adc", "and", "asl_accumulator", "asl",
     "bit", "cmp", "cpx", "cpy", "dec", "inc", "dex", "dey", "eor", "ora", "sbc", "rol",
     "ror"}

BranchCondition(c, arm) ==
    CASE arm = "bcc" -> ~get_bit(c.status, STATUS_BIT_C)
      [] arm = "bcs" -> get_bit(c.status, STATUS_BIT_C)
      [] arm = "beq" -> get_bit(c.status, STATUS_BIT_Z)
      [] arm = "bmi" -> get_bit(c.status, STATUS_BIT_N)
      [] arm = "bne" -> ~get_bit(c.status, STATUS_BIT_Z)
      [] arm = "bpl" -> ~get_bit(c.status, STATUS_BIT_N)
      [] arm = "bvc" -> ~get_bit(c.status, STATUS_BIT_V)
      [] arm = "bvs" -> get_bit(c.status, STATUS_BIT_V)

BranchArms == {"bcc", "bcs", "beq", "bmi", "bne", "bpl", "bvc", "bvs"}

\* the handler call of an arm (without the arm's pc advance)
Handler(c, arm, mode) ==
    CASE arm = "lda" -> lda(c, mode)
      [] arm = "ldx" -> ldx(c, mode)
      [] arm = "ldy" -> ldy(c, mode)
      [] arm = "sta" -> sta(c, mode)
      [] arm = "stx" -> stx(c, mode)
      [] arm = "sty" -> sty(c, mode)
      [] arm = "adc" -> adc(c, mode)
      [] arm = "and" -> and(c, mode)
      [] arm = "asl_accumulator" -> asl_accumulator(c)
      [] arm = "asl" -> asl(c, mode)
      [] arm = "lsr_accumulator" -> lsr_accumulator(c)
      [] arm = "lsr" -> lsr(c, mode)
      [] arm \in BranchArms -> branch(c, BranchCondition(c, arm))
      [] arm = "bit" -> bit(c, mode)
      [] arm = "cmp" -> cmp(c, mode)
      [] arm = "cpx" -> cpx(c, mode)
      [] arm = "cpy" -> cpy(c, mode)
      [] arm = "dec" -> dec(c, mode)
      [] arm = "inc" -> inc(c, mode)
      [] arm = "dex" -> dex(c)
      [] arm = "dey" -> dey(c)
      [] arm = "eor" -> eor(c, mode)
      [] arm = "ora" -> ora(c, mode)
      [] arm = "sbc" -> sbc(c, mode)
      [] arm = "rol_accumulator" -> rol_accumulator(c)
      [] arm = "rol" -> rol(c, mode)
      [] arm = "ror_accumulator" -> ror_accumulator(c)
      [] arm = "ror" -> ror(c, mode)
      [] arm = "clc" -> set_carry(c, FALSE)
      [] arm = "cld" -> [c EXCEPT !.status = set_bit(@, STATUS_BIT_D, FALSE)]
      [] arm = "cli" -> [c EXCEPT !.status = set_bit(@, STATUS_BIT_I, FALSE)]
      [] arm = "sec" -> set_carry(c, TRUE)
      [] arm = "sed" -> [c EXCEPT !.status = set_bit(@, STATUS_BIT_D, TRUE)]
      [] arm = "sei" -> [c EXCEPT !.status = set_bit(@, STATUS_BIT_I, TRUE)]
      [] arm = "tax" -> tax(c)
      [] arm = "txa" -> txa(c)
      [] arm = "inx" -> inx(c)
      [] arm = "iny" -> iny(c)
      [] arm = "jsr" -> jsr(c)
      [] arm = "jmp_absolute" -> jmp_absolute(c)
      [] arm = "jmp_indirect" -> jmp_indirect(c)
      [] arm = "rti" -> rti(c)
      [] arm = "rts" -> rts(c)
      [] arm = "pha" -> stack_push(c, c.reg_a)
      [] arm = "php" -> stack_push(c, c.status)
      [] arm = "pla" -> pla(c)
      [] arm = "plp" -> plp(c)
      [] arm = "nop" -> c

\* the arm indexes the memory array out of bounds (or reaches panic!(""))
HandlerPanics(c, arm, mode) ==
    CASE arm \in ModeArms -> operand_access_panics(c, mode)
      [] arm \in BranchArms -> BranchCondition(c, arm) /\ OutOfBounds(c.pc)
      [] arm \in {"jsr", "jmp_absolute"} -> mem_read_u16_panics(c.pc)
      [] arm = "jmp_indirect" ->
            \/ mem_read_u16_panics(c.pc)
            \/ LET addr == mem_read_u16(c, c.pc)
               IN  IF addr % 256 = \hFF THEN OutOfBounds(addr) ELSE mem_read_u16_panics(addr)
      [] OTHER -> FALSE

\* an unchecked `+` of the arm's handler exceeds u16: jsr's `self.pc + 2 - 1`,
\* rts's `self.stack_pop_u16() + 1`
HandlerOverflows(c, arm) ==
    CASE arm = "jsr" -> c.pc + 2 >= U16
      [] arm = "rts" -> stack_pop_u16(c)[1] + 1 >= U16
      [] OTHER -> FALSE

\* self.pc += (opcode.len - 1) as u16
advance_pc(c, opcode) == [c EXCEPT !.pc = wrapping_add16(@, opcode.len - 1)]
advance_overflows(c, opcode) == c.pc + (opcode.len - 1) >= U16

\* mutant of advance_if_unchanged: the trailing advance without its test
advance_always(c, pc_state, opcode) == advance_pc(c, opcode)

\* `if pc_state == self.pc { self.pc += (opcode.len - 1) as u16; }`
advance_if_unchanged(c, pc_state, opcode) ==
    IF pc_state = c.pc THEN advance_pc(c, opcode) ELSE c

\* mutant of decode_miss: the unknown byte is skipped and the loop goes on
decode_miss_skipped(c) == [cpu |-> c, ret |-> "continue"]

\* `None => return Err(ErrorKind::Unsupported)`
decode_miss(c) == [cpu |-> c, ret |-> "Unsupported"]

(***************************************************************************)
(* One pass of the loop body after the callback: fetch, decode, dispatch,  *)
(* trailing pc advance.  ret is "continue" (loop again), "Ok" (return      *)
(* Ok(())), "Unsupported" (return Err) or "panic" (the thread unwinds out  *)
(* of the run).                                                            *)
(***************************************************************************)
Panic(c) == [cpu |-> c, ret |-> "panic"]

\* a: the CPU after the arm; the trailing `if pc_state == self.pc { .. }`
after_arm(a, pc_state, opcode, overflowed, checks) ==
    IF checks /\ (overflowed \/ (pc_state = a.pc /\ advance_overflows(a, opcode)))
    THEN Panic(a)
    ELSE [cpu |-> advance_if_unchanged(a, pc_state, opcode), ret |-> "continue"]

\* h: the CPU after the arm's handler call; the arm's own `self.pc += ..`
after_handler(h, arm, pc_state, opcode, overflowed, checks) ==
    IF arm \in AdvancingArms
    THEN after_arm(advance_pc(h, opcode), pc_state, opcode,
                   overflowed \/ advance_overflows(h, opcode), checks)
    ELSE after_arm(h, pc_state, opcode, overflowed, checks)

dispatch(c, arm, opcode, checks) ==
    CASE arm = "brk" -> [cpu |-> c, ret |-> "Ok"]
      [] arm = "todo" -> Panic(c)
      [] OTHER ->
            IF HandlerPanics(c, arm, opcode.mode)
            THEN Panic(c)
            ELSE after_handler(Handler(c, arm, opcode.mode), arm, c.pc, opcode,
                               HandlerOverflows(c, arm), checks)

\* c: the CPU after `self.pc += 1`
execute(c, code, checks) == dispatch(c, Arm(code), OPCODES_MAP[code], checks)

decode(c, code, checks) ==
    IF code \in DOMAIN OPCODES_MAP THEN execute(c, code, checks) ELSE decode_miss(c)

step(c, checks) ==
    IF OutOfBounds(c.pc)
    THEN Panic(c)
    ELSE decode([c EXCEPT !.pc = wrapping_add16(@, 1)], mem_read(c, c.pc), checks)

(***************************************************************************)
(* Inputs: the programs a caller loads and what caller code (a hook, or    *)
(* the code around a run) does to the CPU it holds.                        *)
(***************************************************************************)
ShortPrograms ==
    { <<\hA9, \h05, \h00>>,                     \* LDA #05; BRK
      <<\hA9, \hC0, \hAA, \h48, \hE8, \h00>>,   \* LDA #C0; TAX; PHA; INX; BRK
      <<\hA9, \h80, \h02, \h00>>,               \* LDA #80; 0x02 is not in the table
      <<\hFF>>,                                 \* 0xFF is not in the table
      <<\hA2, \h07, \hA8, \h00>>,               \* LDX #07; TAY; BRK
      <<\h38, \hF8, \h85, \h10, \h00>>,         \* SEC; SED; STA $10; BRK
      <<\h4C, \hFF, \hFF>>,                     \* JMP $FFFF
      <<\hA2, \hFF, \h8E, \hFC, \hFF, \h00>> }  \* LDX #FF; STX $FFFC; BRK

\* a program of n bytes, all 0x00 but the last, which is NOP
LongProgram(n) == [len |-> n, bytes |-> [i \in {n - 1} |-> \hEA]]

\* the longest program that ends below the reset vector
WindowLen == RESET_VECTOR - PROGRAM_START

\* programs that end just below the vector, on it, past it, and past the array
LongPrograms ==
    { LongProgram(WindowLen), LongProgram(WindowLen + 1), LongProgram(WindowLen + 2),
      LongProgram(MEM_SIZE - PROGRAM_START + 1) }

Programs == {Slice(seq) : seq \in ShortPrograms} \cup LongPrograms

NoProgram == Slice(<<>>)

\* caller code has `&mut CPU`: it can assign the public fields and call reset()
Effects ==
    { [field |-> "none", value |-> 0],
      [field |-> "reg_a", value |-> \h81],
      [field |-> "index_reg_y", value |-> \h01],
      [field |-> "status", value |-> \hFF],
      [field |-> "sp", value |-> \h00],
      [field |-> "pc", value |-> \h0601],
      [field |-> "reset", value |-> 0] }

NoEffect == [field |-> "none", value |-> 0]

apply_effect(c, e) ==
    CASE e.field = "none" -> c
      [] e.field = "reset" -> reset(c)
      [] e.field = "reg_a" -> [c EXCEPT !.reg_a = e.value]
      [] e.field = "index_reg_y" -> [c EXCEPT !.index_reg_y = e.value]
      [] e.field = "status" -> [c EXCEPT !.status = e.value]
      [] e.field = "sp" -> [c EXCEPT !.sp = e.value]
      [] e.field = "pc" -> [c EXCEPT !.pc = e.value]

(***************************************************************************)
(* State machine                                                           *)
(***************************************************************************)
Self ==
    [pc |-> pc, reg_a |-> reg_a, sp |-> sp, index_reg_x |-> index_reg_x,
     index_reg_y |-> index_reg_y, status |-> status, memory |-> memory]

Assign(c) ==
    /\ pc' = c.pc
    /\ reg_a' = c.reg_a
    /\ sp' = c.sp
    /\ index_reg_x' = c.index_reg_x
    /\ index_reg_y' = c.index_reg_y
    /\ status' = c.status
    /\ memory' = c.memory

\* history record of an operation: code = opcode byte fetched (-1: none), at = pc
\* when it began, ret = how it ended, prev = the operation before it
Op(op, code, ret, program, effect) ==
    [op |-> op, code |-> code, at |-> pc, ret |-> ret, program |-> program,
     effect |-> effect, prev |-> last.op]

NotRunning == phase \in {"idle", "returned"}

Init ==
    /\ pc = new.pc
    /\ reg_a = new.reg_a
    /\ sp = new.sp
    /\ index_reg_x = new.index_reg_x
    /\ index_reg_y = new.index_reg_y
    /\ status = new.status
    /\ memory = new.memory
    /\ phase = "idle"
    /\ user_hook = FALSE
    /\ overflow_checks = "unobserved"
    /\ loads = 0
    /\ runs = 0
    /\ outcome = "none"
    /\ hooks = 0
    /\ fetches = 0
    /\ executed = 0
    /\ writes = 0
    /\ pre = new
    /\ trail = <<>>
    /\ last = [op |-> "new", code |-> -1, at |-> 0, ret |-> "done", program |-> NoProgram,
               effect |-> NoEffect, prev |-> "none"]

\* cpu.load(program)
Load(program) ==
    /\ NotRunning
    /\ loads < MaxLoads
    /\ loads' = loads + 1
    /\ IF load_panics(program)
       THEN /\ UNCHANGED cpu_vars
            /\ phase' = "panicked"
            /\ last' = Op("load", -1, "panic", program, NoEffect)
       ELSE /\ Assign(load(Self, program))
            /\ phase' = phase
            /\ last' = Op("load", -1, "done", program, NoEffect)
    /\ pre' = Self
    /\ UNCHANGED <<user_hook, overflow_checks, runs, outcome, hooks, fetches, executed,
                   writes, trail>>

\* cpu.reset()
Reset ==
    /\ NotRunning
    /\ Assign(reset(Self))
    /\ pre' = Self
    /\ last' = Op("reset", -1, "done", NoProgram, NoEffect)
    /\ UNCHANGED <<phase, user_hook, overflow_checks, loads, runs, outcome, hooks, fetches,
                   executed, writes, trail>>

\* entry of run_with_callback; by_run: called from run() with |_| Ok(())
Enter(by_run) ==
    /\ NotRunning
    /\ runs < MaxRuns
    /\ runs' = runs + 1
    /\ phase' = "callback"
    /\ user_hook' = ~by_run
    /\ outcome' = "none"
    /\ hooks' = 0
    /\ fetches' = 0
    /\ executed' = 0
    /\ pre' = Self
    /\ last' = Op("run", -1, "done", NoProgram, NoEffect)
    /\ trail' = <<>>
    /\ UNCHANGED <<cpu_vars, overflow_checks, loads, writes>>

\* cpu.run()
Run == Enter(TRUE)

\* cpu.run_with_callback(hook), Nes::exec(hook)
RunWithCallback == Enter(FALSE)

\* mutant of after_callback: the hook's result is dropped (`callback(self);`)
after_callback_ignored(res) == "fetch"

\* `callback(self)?`
after_callback(res) == IF res = "Err" THEN "returned" ELSE "fetch"

\* the hooks a run may have: run()'s closure returns Ok(()) and touches nothing
HookChoice(e, res) ==
    /\ user_hook \/ (e = NoEffect /\ res = "Ok")
    /\ e # NoEffect => writes < MaxWrites

\* one call of the hook; limit bounds the calls of a run
Callback(effects, limit) ==
    /\ phase = "callback"
    /\ hooks < limit
    /\ \E e \in effects, res \in {"Ok", "Err"} :
        /\ HookChoice(e, res)
        /\ Assign(apply_effect(Self, e))
        /\ writes' = IF e = NoEffect THEN writes ELSE writes + 1
        /\ phase' = after_callback(res)
        /\ outcome' = IF phase' = "returned" THEN "HookErr" ELSE outcome
        /\ last' = Op("callback", -1, res, NoProgram, e)
    /\ hooks' = hooks + 1
    /\ pre' = Self
    /\ UNCHANGED <<user_hook, overflow_checks, loads, runs, fetches, executed, trail>>

\* mutant of after_step: the hook is called once, ahead of the loop
after_step_without_hook(ret, by_run) ==
    CASE ret = "continue" -> "fetch"
      [] ret = "Ok" -> "returned"
      [] ret = "Unsupported" -> IF by_run THEN "panicked" ELSE "returned"
      [] ret = "panic" -> "panicked"

\* where the loop goes after the dispatch: `loop`, `return Ok(())`, `return Err(..)`;
\* run() unwraps the result, so an Err panics there
after_step(ret, by_run) ==
    CASE ret = "continue" -> "callback"
      [] ret = "Ok" -> "returned"
      [] ret = "Unsupported" -> IF by_run THEN "panicked" ELSE "returned"
      [] ret = "panic" -> "panicked"

\* the step before this one, if the run has made one
Latest(t) == IF t = <<>> THEN <<>> ELSE <<t[Len(t)]>>

\* the builds the run so far fits
Builds == IF overflow_checks = "unobserved" THEN BOOLEAN ELSE {overflow_checks = "on"}

\* the step comes out differently with and without overflow checks
BuildObserved(c) == step(c, TRUE) # step(c, FALSE)

FetchExecute ==
    /\ phase = "fetch"
    /\ \E checks \in Builds :
        /\ overflow_checks' =
                IF BuildObserved(Self) THEN (IF checks THEN "on" ELSE "off")
                ELSE overflow_checks
        /\ \E s \in {step(Self, checks)} :
            /\ IF s.ret = "panic" THEN UNCHANGED cpu_vars ELSE Assign(s.cpu)
            /\ phase' = after_step(s.ret, ~user_hook)
            /\ outcome' = IF s.ret \in {"Ok", "Unsupported"} THEN s.ret ELSE outcome
            /\ fetches' = IF OutOfBounds(pc) THEN fetches ELSE fetches + 1
            /\ executed' = IF s.ret = "continue" THEN executed + 1 ELSE executed
            /\ last' = Op("step", IF OutOfBounds(pc) THEN -1 ELSE mem_read(Self, pc),
                          s.ret, NoProgram, NoEffect)
            /\ trail' = Latest(trail) \o <<[code |-> last'.code, ret |-> s.ret, cpu |-> Self]>>
    /\ pre' = Self
    /\ UNCHANGED <<user_hook, loads, runs, hooks, writes>>

(***************************************************************************)
(* Spec: a caller drives one CPU through its public API.                   *)
(***************************************************************************)
Next ==
    \/ \E program \in Programs : Load(program)
    \/ Reset
    \/ Run
    \/ RunWithCallback
    \/ Callback(Effects, MaxSteps)
    \/ FetchExecute

Spec == Init /\ [][Next]_vars

(***************************************************************************)
(* SpecNes: a program is handed to Nes::new and run by Nes::exec with a    *)
(* hook that leaves the CPU alone.  The roms store an operand byte m where *)
(* the addressing mode of the opcode under test finds it, set the flags,   *)
(* X = 2 and Y = 3, put r in the register the opcode works on, execute the *)
(* opcode and halt.                                                        *)
(***************************************************************************)
ByteSamples == {\h00, \h01, \h3F, \h40, \h7F, \h80, \h81, \hC0, \hFE, \hFF}

\* the opcode bytes of a dispatch arm
ArmCodes(arm) == {code \in DOMAIN OPCODES_MAP : Arm(code) = arm}

\* LDA #m, then a store of A to the address the mode will resolve to (and, for the
\* indirect modes, of the pointer to it into the zero page)
StoreFor(mode, m) ==
    CASE mode = "Immediate" -> <<>>
      [] mode = "ZeroPage" -> <<\hA9, m, \h85, \h10>>
      [] mode \in {"ZeroPage_X", "ZeroPage_Y"} -> <<\hA9, m, \h85, \h13>>
      [] mode = "Absolute" -> <<\hA9, m, \h8D, \h00, \h02>>
      [] mode \in {"Absolute_X", "Absolute_Y"} -> <<\hA9, m, \h8D, \h05, \h02>>
      [] mode = "Indirect_X" ->
            <<\hA9, m, \h8D, \h00, \h02, \hA9, \h00, \h85, \h22, \hA9, \h02, \h85, \h23>>
      [] mode = "Indirect_Y" ->
            <<\hA9, m, \h8D, \h05, \h02, \hA9, \h02, \h85, \h24, \hA9, \h02, \h85, \h25>>

\* the operand bytes that follow the opcode under test
OperandBytes(mode, m) ==
    CASE mode = "Immediate" -> <<m>>
      [] mode = "ZeroPage" -> <<\h10>>
      [] mode = "ZeroPage_X" -> <<\h11>>
      [] mode = "ZeroPage_Y" -> <<\h10>>
      [] mode = "Absolute" -> <<\h00, \h02>>
      [] mode = "Absolute_X" -> <<\h03, \h02>>
      [] mode = "Absolute_Y" -> <<\h02, \h02>>
      [] mode = "Indirect_X" -> <<\h20>>
      [] mode = "Indirect_Y" -> <<\h24>>

\* CLC / SEC / LDA #7F ADC #01 (sets V and N) / the same and SEC SED SEI
FlagSetups ==
    { <<\h18>>, <<\h38>>, <<\hA9, \h7F, \h69, \h01>>,
      <<\hA9, \h7F, \h69, \h01, \h38, \hF8, \h78>> }

\* LDX #02; LDY #03
IndexSetup == <<\hA2, \h02, \hA0, \h03>>

\* r into the register the opcode under test works on
RegSetup(code, r) ==
    CASE Arm(code) = "cpx" -> <<\hA2, r>>
      [] Arm(code) = "cpy" -> <<\hA0, r>>
      [] OTHER -> <<\hA9, r>>

TestRom(code, r, m, fs) ==
    StoreFor(OPCODES_MAP[code].mode, m) \o fs \o IndexSetup \o RegSetup(code, r)
        \o <<code>> \o OperandBytes(OPCODES_MAP[code].mode, m) \o <<\h00>>

TestedArms == {"lda", "ldx", "ldy", "adc", "cmp", "cpx", "cpy"}

TestedCodes == UNION {ArmCodes(arm) : arm \in TestedArms}

LoadArms == {"lda", "ldx", "ldy"}

\* a load overwrites r, so one r will do; the other opcodes get the bytes at the
\* ends of the unsigned and signed ranges
RegsFor(code) ==
    IF Arm(code) \in LoadArms THEN {\h55} ELSE {\h00, \h01, \h7F, \h80, \hFF}

\* every byte as the operand of the immediate loads, the samples elsewhere
OperandsFor(code) ==
    IF Arm(code) \in LoadArms /\ OPCODES_MAP[code].mode = "Immediate"
    THEN Byte
    ELSE ByteSamples

RomsFor(code) ==
    { Slice(TestRom(code, r, m, fs)) :
        r \in RegsFor(code), m \in OperandsFor(code), fs \in FlagSetups }

Roms == UNION {RomsFor(code) : code \in TestedCodes}

\* Nes::new(rom): CPU::new(), cpu.load(rom), cpu.reset()
InitNes ==
    \E rom \in Roms :
        /\ \E c \in {reset(load(new, rom))} :
            /\ pc = c.pc
            /\ reg_a = c.reg_a
            /\ sp = c.sp
            /\ index_reg_x = c.index_reg_x
            /\ index_reg_y = c.index_reg_y
            /\ status = c.status
            /\ memory = c.memory
        /\ pre = load(new, rom)
        /\ phase = "idle"
        /\ user_hook = FALSE
        /\ overflow_checks = "unobserved"
        /\ loads = 1
        /\ runs = 0
        /\ outcome = "none"
        /\ hooks = 0
        /\ fetches = 0
        /\ executed = 0
        /\ writes = 0
        /\ trail = <<>>
        /\ last = [op |-> "reset", code |-> -1, at |-> 0, ret |-> "done",
                   program |-> NoProgram, effect |-> NoEffect, prev |-> "load"]

\* Nes::exec(hook) with a hook that returns Ok(()) or an error and changes nothing
NextNes ==
    \/ RunWithCallback
    \/ Callback({NoEffect}, MaxNesSteps)
    \/ FetchExecute

SpecNes == InitNes /\ [][NextNes]_vars

(***************************************************************************)
(* SpecCase: the caller builds a Nes from a rom, assigns public fields of  *)
(* nes.cpu (pc, reg_a, index_reg_x, index_reg_y, sp, status) and calls     *)
(* Nes::exec.  A case is the rom with the values assigned.                 *)
(***************************************************************************)
\* the program that holds the bytes of seq from index off on and 0 before them
Place(off, seq) ==
    [len |-> off + Len(seq),
     bytes |-> [i \in {off + j - 1 : j \in {k \in 1..Len(seq) : seq[k] # 0}} |->
                    seq[i - off + 1]]]

\* the program that holds the bytes of p and, where p holds 0 or ends, those of q
Join(p, q) ==
    [len |-> IF p.len >= q.len THEN p.len ELSE q.len,
     bytes |-> [i \in DOMAIN p.bytes \cup DOMAIN q.bytes |->
                    IF i \in DOMAIN p.bytes THEN p.bytes[i] ELSE q.bytes[i]]]

\* program bytes at the address addr (>= 0x0600)
PlaceAt(addr, seq) == Place(addr - PROGRAM_START, seq)

Lo(w) == w % 256
Hi(w) == (w \div 256) % 256

Regs(pc0, a, x, y, s, st) ==
    [pc |-> pc0, reg_a |-> a, index_reg_x |-> x, index_reg_y |-> y, sp |-> s, status |-> st]

\* the registers Nes::new leaves
ResetRegs == Regs(PROGRAM_START, 0, 0, 0, STACK_RESET, 0)

Case(rom, regs) == [rom |-> rom, regs |-> regs]

\* nes.cpu.pc = ..; nes.cpu.reg_a = ..; .. on the CPU c
Setup(c, regs) ==
    [c EXCEPT !.pc = regs.pc, !.reg_a = regs.reg_a, !.index_reg_x = regs.index_reg_x,
              !.index_reg_y = regs.index_reg_y, !.sp = regs.sp, !.status = regs.status]

SpSamples == {\h00, \h01, \hFD, \hFF}

\* PHA; PLA; BRK and PHP; PLP; BRK with every byte in A / status at the sampled stack
\* pointers, and every stack pointer with sampled bytes
StackRoms == {Slice(<<\h48, \h68, \h00>>), Slice(<<\h08, \h28, \h00>>)}

StackRegs ==
    {Regs(PROGRAM_START, v, 0, 0, s, v) : v \in Byte, s \in {\h00, \hFF}}
        \cup {Regs(PROGRAM_START, v, 0, 0, s, v) : v \in {\h01, \h80}, s \in Byte}

StackCases == {Case(rom, regs) : rom \in StackRoms, regs \in StackRegs}

\* ROL A; ROR A and ROR A; ROL A with every byte in A, carry clear and set; the same on
\* the zero-page byte 0x10 after LDA #v; STA $10, with the sampled bytes
RotateCases ==
    {Case(Slice(rom), Regs(PROGRAM_START, v, 0, 0, STACK_RESET, c)) :
        rom \in {<<\h2A, \h6A, \h00>>, <<\h6A, \h2A, \h00>>}, v \in Byte, c \in {0, 1}}
    \cup
    {Case(Slice(<<\hA9, v, \h85, \h10>> \o rom), Regs(PROGRAM_START, 0, 0, 0, STACK_RESET, c)) :
        rom \in {<<\h26, \h10, \h66, \h10, \h00>>, <<\h66, \h10, \h26, \h10, \h00>>},
        v \in ByteSamples, c \in {0, 1}}

\* JSR t at the address a, with pc = a
JsrRom(a, t) == PlaceAt(a, <<\h20, Lo(t), Hi(t)>>)

\* <<a, t>>: a call to a later address, to the address of its own operand (the low
\* byte of 0x0660 is the RTS opcode) and to the address of its last byte
CallPairs == {<<\h0610, \h0620>>, <<\h065F, \h0660>>, <<\h6010, \h6012>>}

\* JSR t at a with RTS at t, for every stack pointer
CallReturnCases ==
    {Case(Join(JsrRom(p[1], p[2]), PlaceAt(p[2], <<\h60>>)), Regs(p[1], 0, 0, 0, s, 0)) :
        p \in CallPairs, s \in Byte}

\* BCC BCS BEQ BMI BNE BPL BVC BVS
BranchOpcodes == {\h90, \hB0, \hF0, \h30, \hD0, \h10, \h50, \h70}

\* each branch with every displacement, at the start of the window and near the top
\* of memory, with all flags clear and all flags set
BranchCases ==
    {Case(PlaceAt(a, <<op, d>>), Regs(a, 0, 0, 0, STACK_RESET, st)) :
        op \in BranchOpcodes, d \in Byte, a \in {\h0600, \hFFF0}, st \in {\h00, \hFF}}

\* INX INX, INY INY, DEX DEX, DEY DEY with every byte in X and Y, flags clear and set
StepRegCases ==
    {Case(Slice(<<op, op, \h00>>), Regs(PROGRAM_START, 0, v, v, STACK_RESET, st)) :
        op \in {\hE8, \hC8, \hCA, \h88}, v \in Byte, st \in {\h00, \hFF}}

\* a test rom for the opcode with A = r and the operand byte m, flags clear and set
OperandCases(codes, rs, ms) ==
    {Case(Slice(TestRom(code, r, m, <<>>)), Regs(PROGRAM_START, 0, 0, 0, STACK_RESET, st)) :
        code \in codes, r \in rs, m \in ms, st \in {\h00, \hFF}}

\* INC and DEC in their four addressing modes on the sampled bytes
StepMemCases == OperandCases(ArmCodes("inc") \cup ArmCodes("dec"), {\h55}, ByteSamples)

\* BIT zero page and absolute with the sampled bytes in A and in memory
BitCases == OperandCases(ArmCodes("bit"), ByteSamples, ByteSamples)

\* arms that assign pc a target, and the arm that returns
ControlArms == BranchArms \cup {"jsr", "jmp_absolute", "jmp_indirect", "rts", "rti", "brk"}

\* the opcodes of the table that the match handles and that are not control flow
DataCodes == {code \in DOMAIN OPCODES_MAP : Arm(code) \notin ControlArms \cup {"todo"}}

\* each such opcode with operand bytes 0x10 0x02, in the middle of a page and across a
\* page boundary
AdvanceCases ==
    {Case(PlaceAt(a, <<code, \h10, \h02>>), Regs(a, \h01, \h01, \h01, STACK_RESET, 0)) :
        code \in DataCodes, a \in {\h0600, \h06FE}}

\* targets of a jump or call at address a: its own operand, itself, the ends of the
\* address space, and others
Targets(a) == {a + 1, a, a + 2, a + 3, \h0000, \h00FF, \h1234, \h8000, \hFFFF}

JumpAddresses == {\h0600, \h0610, \h06FE}

\* JMP absolute at a to each target
JumpAt(a) ==
    {Case(PlaceAt(a, <<\h4C, Lo(t), Hi(t)>>), Regs(a, 0, 0, 0, STACK_RESET, 0)) :
        t \in Targets(a)}

JumpCases == UNION {JumpAt(a) : a \in JumpAddresses}

\* JMP indirect at 0x0610 through a pointer in the middle of a page (0x0620) and one at
\* the end of a page (0x06FF); 0x56 at 0x0600 is the byte the page wrap fetches
JumpIndirectCases ==
    {Case(Join(PlaceAt(\h0610, <<\h6C, Lo(p), Hi(p)>>),
               Join(PlaceAt(p, <<Lo(t), Hi(t)>>), PlaceAt(\h0600, <<\h56>>))),
          Regs(\h0610, 0, 0, 0, STACK_RESET, 0)) :
        p \in {\h0620, \h06FF}, t \in Targets(\h0610)}

\* JSR at a to each target, with the stack pointer at both ends, one off them, and at
\* its reset value
CallAt(a) ==
    {Case(JsrRom(a, t), Regs(a, 0, 0, 0, s, 0)) :
        t \in Targets(a), s \in SpSamples \cup {STACK_RESET}}

CallCases == UNION {CallAt(a) : a \in JumpAddresses}

\* LDA #hi; PHA; LDA #lo; PHA; LDA #st; PHA; RTI (the RTI is at 0x0609)
RtiRom(t, st) ==
    Slice(<<\hA9, Hi(t), \h48, \hA9, Lo(t), \h48, \hA9, st, \h48, \h40>>)

\* return addresses: the RTI itself, the byte after it, the ends of the address space
RtiTargets == {\h0609, \h060A, \h0000, \h12FF, \hFFFF}

\* every stack pointer with one frame, and every frame with the stack pointer around
\* its wrap
RtiCases ==
    {Case(RtiRom(\h12FF, \h81), Regs(PROGRAM_START, 0, 0, 0, s, 0)) : s \in Byte} \cup
    {Case(RtiRom(t, st), Regs(PROGRAM_START, 0, 0, 0, s, 0)) :
        t \in RtiTargets, st \in {\h00, \h30, \h81, \hFF},
        s \in {\h00, \h01, \h02, \h03, STACK_RESET, \hFF}}

\* ASL A and LSR A on every byte, ASL and LSR in their four addressing modes on the
\* sampled bytes, flags clear and set
ShiftCases ==
    {Case(Slice(<<op, \h00>>), Regs(PROGRAM_START, v, \h01, \h02, STACK_RESET, st)) :
        op \in {\h0A, \h4A}, v \in Byte, st \in {\h00, \hFF}} \cup
    OperandCases(ArmCodes("asl") \cup ArmCodes("lsr"), {\h55}, ByteSamples)

\* bytes whose result is zero, positive and negative
FlagSamples == {\h00, \h01, \h7F, \h80, \hFF}

\* TAX and TXA on every byte; loads, AND, ORA, EOR, ADC and SBC in all their addressing
\* modes on the flag samples; flags clear and set
FlagCases ==
    {Case(Slice(<<op, \h00>>), Regs(PROGRAM_START, v, 255 - v, \h02, STACK_RESET, st)) :
        op \in {\hAA, \h8A}, v \in Byte, st \in {\h00, \hFF}} \cup
    OperandCases(UNION {ArmCodes(arm) : arm \in {"lda", "ldx", "ldy"}}, {\h55}, FlagSamples)
        \cup
    OperandCases(UNION {ArmCodes(arm) : arm \in {"and", "ora", "eor", "adc", "sbc"}},
                 FlagSamples, FlagSamples)

\* CLC, SEC, CLD, SED, CLI, SEI
FlagOpcodes == {\h18, \h38, \hD8, \hF8, \h58, \h78}

\* each of them from every status byte
FlagOpCases ==
    {Case(Slice(<<op, \h00>>), Regs(PROGRAM_START, \h11, \h22, \h33, STACK_RESET, st)) :
        op \in FlagOpcodes, st \in Byte}

\* addresses over the whole 16-bit range, outside the program at 0x0600
AddressSamples ==
    {\h0000, \h00FF, \h0100, \h01FF, \h0200, \h7FFF, \h8000, \hFFFB, \hFFFE, \hFFFF}

\* STA a; LDX a with 0x5A in A, and JMP (a), a 16-bit read at a, for the sampled
\* addresses; and LDA absolute with its opcode at 0xFFFE, whose operand fetch is a
\* 16-bit read at 0xFFFF
MemoryCases ==
    {Case(Slice(<<\h8D, Lo(a), Hi(a), \hAE, Lo(a), Hi(a), \h00>>),
          Regs(PROGRAM_START, \h5A, 0, 0, STACK_RESET, 0)) : a \in AddressSamples} \cup
    {Case(Slice(<<\h6C, Lo(a), Hi(a)>>), ResetRegs) : a \in AddressSamples} \cup
    {Case(PlaceAt(\hFFFE, <<\hAD>>), Regs(\hFFFE, 0, 0, 0, STACK_RESET, 0))}

\* arithmetic at the top of the 16-bit range: RTS popping 0xFFFF and 0xFFFE, a JSR
\* and a NOP with the opcode at 0xFFFE
WrapCases ==
    {Case(Slice(<<\hA9, \hFF, \h48, \hA9, lo, \h48, \h60>>), ResetRegs) :
        lo \in {\hFE, \hFF}} \cup
    {Case(PlaceAt(\hFFFE, <<op>>), Regs(\hFFFE, 0, 0, 0, STACK_RESET, 0)) :
        op \in {\h20, \hEA}}

Cases ==
    StackCases \cup RotateCases \cup CallReturnCases \cup BranchCases \cup StepRegCases
        \cup StepMemCases \cup BitCases \cup AdvanceCases \cup JumpCases
        \cup JumpIndirectCases \cup CallCases \cup RtiCases \cup ShiftCases \cup FlagCases
        \cup FlagOpCases \cup MemoryCases \cup WrapCases

\* a hook that may overwrite A or status right before a pull (0x68 PLA, 0x28 PLP) and
\* otherwise leaves the CPU alone
CaseEffects ==
    IF ~OutOfBounds(pc) /\ mem_read(Self, pc) \in {\h68, \h28}
    THEN {NoEffect, [field |-> "reg_a", value |-> \h81], [field |-> "status", value |-> \hFF]}
    ELSE {NoEffect}

InitCase ==
    \E case \in Cases :
        /\ \E c \in {Setup(reset(load(new, case.rom)), case.regs)} :
            /\ pc = c.pc
            /\ reg_a = c.reg_a
            /\ sp = c.sp
            /\ index_reg_x = c.index_reg_x
            /\ index_reg_y = c.index_reg_y
            /\ status = c.status
            /\ memory = c.memory
        /\ pre = reset(load(new, case.rom))
        /\ phase = "idle"
        /\ user_hook = FALSE
        /\ overflow_checks = "unobserved"
        /\ loads = 1
        /\ runs = 0
        /\ outcome = "none"
        /\ hooks = 0
        /\ fetches = 0
        /\ executed = 0
        /\ writes = 0
        /\ trail = <<>>
        /\ last = [op |-> "setup", code |-> -1, at |-> PROGRAM_START, ret |-> "done",
                   program |-> NoProgram, effect |-> NoEffect, prev |-> "reset"]

NextCase ==
    \/ RunWithCallback
    \/ Callback(CaseEffects, MaxCaseSteps)
    \/ FetchExecute

SpecCase == InitCase /\ [][NextCase]_vars

(***************************************************************************)
(* SpecAdc, SpecSbc: ADC #m and SBC #m run by cpu.run() for every          *)
(* accumulator, operand and carry-in, and for sampled bytes with the other *)
(* flags set.                                                              *)
(***************************************************************************)
AluStatus(a, m) ==
    IF a \in ByteSamples /\ m \in ByteSamples THEN {\h00, \h01, \hFE, \hFF} ELSE {\h00, \h01}

\* the CPU with rom loaded and reset, its registers then assigned by the caller
Started(rom, regs) ==
    /\ \E c \in {Setup(reset(load(new, rom)), regs)} :
        /\ pc = c.pc
        /\ reg_a = c.reg_a
        /\ sp = c.sp
        /\ index_reg_x = c.index_reg_x
        /\ index_reg_y = c.index_reg_y
        /\ status = c.status
        /\ memory = c.memory
    /\ pre = reset(load(new, rom))
    /\ phase = "idle"
    /\ user_hook = FALSE
    /\ overflow_checks = "unobserved"
    /\ loads = 1
    /\ runs = 0
    /\ outcome = "none"
    /\ hooks = 0
    /\ fetches = 0
    /\ executed = 0
    /\ writes = 0
    /\ trail = <<>>
    /\ last = [op |-> "setup", code |-> -1, at |-> PROGRAM_START, ret |-> "done",
               program |-> NoProgram, effect |-> NoEffect, prev |-> "reset"]

InitAlu(code) ==
    \E a \in Byte, m \in Byte :
        \E st \in AluStatus(a, m) :
            Started(Slice(<<code, m>>), Regs(PROGRAM_START, a, 0, 0, STACK_RESET, st))

NextAlu ==
    \/ Run
    \/ Callback({NoEffect}, MaxAluSteps)
    \/ FetchExecute

SpecAdc == InitAlu(\h69) /\ [][NextAlu]_vars

SpecSbc == InitAlu(\hE9) /\ [][NextAlu]_vars

(***************************************************************************)
(* SpecAddress: the caller runs, through Nes::exec, roms that store and    *)
(* load through the indexed zero-page and the indirect addressing modes,   *)
(* with the index registers assigned beforehand.                           *)
(***************************************************************************)
ZeroPageSamples == {\h00, \h01, \h7F, \h80, \hFE, \hFF}

\* <<operand byte, index>>: the sampled operand bytes with every index, and every
\* operand byte with the indices 0x00, 0x01 and 0xFF
IndexedPairs ==
    {<<b, i>> : b \in ZeroPageSamples, i \in Byte} \cup
    {<<b, i>> : b \in Byte, i \in {\h00, \h01, \hFF}}

\* STA b,X; LDY b,X with A = 0x5A, and STX b,Y; LDX #00; LDX b,Y with X = 0x5A
ZeroPageIndexedCases ==
    {Case(Slice(<<\h95, p[1], \hB4, p[1], \h00>>),
          Regs(PROGRAM_START, \h5A, p[2], \h33, STACK_RESET, 0)) : p \in IndexedPairs} \cup
    {Case(Slice(<<\h96, p[1], \hA2, \h00, \hB6, p[1], \h00>>),
          Regs(PROGRAM_START, \h44, \h5A, p[2], STACK_RESET, 0)) : p \in IndexedPairs}

\* the pointer word w stored at the zero-page bytes lo_at and hi_at, then 0x5A stored
\* and loaded back by the opcodes st and ld with the operand byte b
PointerRom(w, lo_at, hi_at, st, ld, b) ==
    <<\hA9, Lo(w), \h85, lo_at, \hA9, Hi(w), \h85, hi_at, \hA9, \h5A, st, b,
      \hA9, \h00, ld, b, \h00>>

\* STA (b,X); LDA (b,X) with the pointer 0x0234 at (b + X) mod 256
IndirectXCases ==
    {Case(Slice(PointerRom(\h0234, (b + x) % 256, (b + x + 1) % 256, \h81, \hA1, b)),
          Regs(PROGRAM_START, 0, x, \h33, STACK_RESET, 0)) :
        b \in ZeroPageSamples, x \in Byte}

\* STA (b),Y; LDA (b),Y with the pointers 0x0234 and 0xFFF0 at b
IndirectYCases ==
    {Case(Slice(PointerRom(w, b, (b + 1) % 256, \h91, \hB1, b)),
          Regs(PROGRAM_START, 0, \h33, y, STACK_RESET, 0)) :
        b \in ZeroPageSamples, y \in Byte, w \in {\h0234, \hFFF0}}

AddressCases == ZeroPageIndexedCases \cup IndirectXCases \cup IndirectYCases

InitAddress == \E case \in AddressCases : Started(case.rom, case.regs)

SpecAddress == InitAddress /\ [][NextCase]_vars

(***************************************************************************)
(* SpecStatus: the caller runs, through Nes::exec, every opcode of the     *)
(* table once and short programs around PHP, with the status byte assigned *)
(* beforehand.                                                             *)
(***************************************************************************)
StatusSamples == {\h00, \h10, \hCF, \hFF}

\* the operand bytes given to an opcode of the length len: the zero-page address,
\* immediate value or displacement 0x04, or the address 0x0600
OperandsOfLen(len) ==
    CASE len = 1 -> <<>>
      [] len = 2 -> <<\h04>>
      [] len = 3 -> <<\h00, \h06>>

\* every opcode of the table, then BRK
OpcodeCases ==
    {Case(Slice(<<code>> \o OperandsOfLen(OPCODES_MAP[code].len) \o <<\h00>>),
          Regs(PROGRAM_START, \h5A, \h01, \h02, STACK_RESET, st)) :
        code \in TableCodes, st \in StatusSamples}

\* PHP; PLA / PHP; PLP / PHP; NOP; PLA / PHP; LDA $01FD / LDA #06; PHA; LDA #10; PHA;
\* PHP; RTI / PHP; PHP; RTS / PHP; PHA; RTI
PhpRoms ==
    {<<\h08, \h68, \h00>>, <<\h08, \h28, \h00>>, <<\h08, \hEA, \h68, \h00>>,
     <<\h08, \hAD, \hFD, \h01, \h00>>, <<\hA9, \h06, \h48, \hA9, \h10, \h48, \h08, \h40>>,
     <<\h08, \h08, \h60>>, <<\h08, \h48, \h40>>}

\* each of them from four status bytes with bits 4 and 5 in their four combinations,
\* at the reset stack pointer and at 0x00 and 0x01
PhpCases ==
    {Case(Slice(rom), Regs(PROGRAM_START, \h5A, \h01, \h02, s, st + m)) :
        rom \in PhpRoms, st \in {\h00, \h01, \h82, \hCF}, m \in {\h00, \h10, \h20, \h30},
        s \in {STACK_RESET, \h00, \h01}}

StatusCases == OpcodeCases \cup PhpCases

InitStatus == \E case \in StatusCases : Started(case.rom, case.regs)

SpecStatus == InitStatus /\ [][NextCase]_vars

(***************************************************************************)
(* Properties                                                              *)
(***************************************************************************)
Registers(c) == <<c.reg_a, c.index_reg_x, c.index_reg_y, c.status, c.sp>>

\* the last operation was a step whose opcode byte has no table entry
FaultingStep == last.op = "step" /\ last.code >= 0 /\ last.code \notin DOMAIN OPCODES_MAP

\* C1: a step that fetches a byte with no entry in the opcode table returns
\* Err(Unsupported) in that step: the run is over (no later byte is fetched), only
\* the opcode byte was consumed, and accumulator, X, Y, status, stack pointer and
\* memory are as they were before the step.
C1_DecodeFault ==
    FaultingStep =>
        /\ last.ret = "Unsupported"
        /\ outcome = "Unsupported"
        /\ phase = IF user_hook THEN "returned" ELSE "panicked"
        /\ Registers(Self) = Registers(pre)
        /\ memory = pre.memory
        /\ pc = pre.pc + 1
        /\ fetches = hooks
        /\ executed = fetches - 1

C1_Witness == FaultingStep /\ last.code = \h02 /\ reg_a = \h80 /\ executed = 1

\* the last operation was a hook call that returned Err
HookFailed == last.op = "callback" /\ last.ret = "Err"

\* C2: when the hook returns Err the run returns that failure at once: the pending
\* opcode is neither fetched nor executed and the CPU is exactly what the hook left.
C2_HookAbort ==
    HookFailed =>
        /\ phase = "returned"
        /\ outcome = "HookErr"
        /\ fetches = hooks - 1
        /\ executed = hooks - 1
        /\ Self = apply_effect(pre, last.effect)

C2_Witness == HookFailed /\ hooks = 3 /\ last.effect.field = "reg_a" /\ reg_a # pre.reg_a

\* a run has ended with the last operation
RunEnded == phase \in {"returned", "panicked"} /\ last.op \in {"step", "callback"}

\* C3: every run that ends, ends with Ok (halt opcode), Err(Unsupported) (decode
\* fault) or the hook's Err; no step ends the run in any other way.
C3_ThreeEndings == RunEnded => outcome \in {"Ok", "Unsupported", "HookErr"}

\* C4: the hook is called once per instruction, before its opcode fetch: a fetch is
\* always preceded by exactly one more hook call than fetches made, the loop is back
\* at the hook only with every fetched instruction executed, and a run that halts
\* after n instructions has called the hook n + 1 times.
C4_HookPerInstruction ==
    /\ phase = "fetch" => hooks = fetches + 1 /\ executed = fetches /\ last.op = "callback"
    /\ phase = "callback" => hooks = fetches /\ executed = fetches
    /\ (RunEnded /\ outcome = "Ok") =>
            hooks = executed + 1 /\ fetches = hooks /\ last.op = "step"
    /\ RunEnded => hooks \in {fetches, fetches + 1}

C4_Witness == RunEnded /\ outcome = "Ok" /\ executed = 4 /\ hooks = 5

\* the last operation was reset(), called by the caller or from the hook
ResetDone == last.op = "reset" \/ (last.op = "callback" /\ last.effect.field = "reset")

\* C5: reset sets pc to the little-endian word at 0xFFFC/0xFFFD, accumulator, X and
\* status to 0 and the stack pointer to 0xFD, and leaves memory unchanged.
C5_Reset ==
    ResetDone =>
        /\ pc = mem_read(pre, \hFFFC) + 256 * mem_read(pre, \hFFFD)
        /\ reg_a = 0
        /\ index_reg_x = 0
        /\ status = 0
        /\ sp = \hFD
        /\ memory = pre.memory

C5_Witness ==
    /\ last.op = "reset"
    /\ runs = 1
    /\ pre.sp # \hFD
    /\ pre.reg_a # 0
    /\ pre.index_reg_x # 0
    /\ pc = \h0600

\* the last operation was a load that returned
LoadDone == last.op = "load" /\ last.ret = "done"

InWindow(a) == a >= \h0600 /\ a < \h0600 + last.program.len

\* memory[0x0600 + i] == program[i] for every i (an index that is 0 in both the
\* sparse program and the sparse memory needs no look)
Verbatim ==
    \A i \in DOMAIN last.program.bytes \cup {a - \h0600 : a \in {x \in DOMAIN memory : InWindow(x)}} :
        mem_read(Self, \h0600 + i) = ByteAt(last.program, i)

VectorWritten == mem_read(Self, \hFFFC) = \h00 /\ mem_read(Self, \hFFFD) = \h06

OthersUnchanged ==
    \A a \in DOMAIN memory \cup DOMAIN pre.memory :
        (~InWindow(a) /\ a \notin {\hFFFC, \hFFFD}) => mem_read(Self, a) = mem_read(pre, a)

LoadEffect ==
    /\ Verbatim
    /\ VectorWritten
    /\ OthersUnchanged
    /\ Registers(Self) = Registers(pre)
    /\ pc = pre.pc

ResetAfterLoad == (last.op = "reset" /\ last.prev = "load") => pc = \h0600

\* C6 as claimed: for every program, load copies it verbatim to 0x0600.., writes
\* 0x0600 at 0xFFFC/0xFFFD and changes nothing else; a reset after it leaves pc at
\* the program's first byte.
C6_LoadEveryProgram == (LoadDone => LoadEffect) /\ ResetAfterLoad

\* C6 as amended: the same for every program of at most 0xF9FC bytes (one that ends
\* below the reset vector); a reset after any load that returned leaves pc at 0x0600.
C6_Load == ((LoadDone /\ last.program.len <= \hF9FC) => LoadEffect) /\ ResetAfterLoad

C6_Witness ==
    /\ LoadDone
    /\ last.program.len = \hF9FC
    /\ mem_read(Self, \hFFFB) = \hEA
    /\ reg_a = \h81

\* the last operation was a step that executed an opcode of the arm
Executed(arm) ==
    /\ last.op = "step"
    /\ last.ret = "continue"
    /\ last.code \in DOMAIN OPCODES_MAP
    /\ Arm(last.code) = arm

\* the operand byte of the executed instruction, read from the state before the step
\* (the opcode is at pre.pc, its operand bytes follow)
OperandValue ==
    mem_read(pre, get_operand_address([pre EXCEPT !.pc = pre.pc + 1],
                                      OPCODES_MAP[last.code].mode))

\* status flags by their bit position
FlagC(s) == s % 2 = 1
FlagZ(s) == (s \div 2) % 2 = 1
FlagI(s) == (s \div 4) % 2 = 1
FlagD(s) == (s \div 8) % 2 = 1
FlagV(s) == (s \div 64) % 2 = 1
FlagN(s) == (s \div 128) % 2 = 1

Bit7(v) == v >= 128

Loaded(reg, v) ==
    /\ reg = v
    /\ FlagZ(status) = (v = 0)
    /\ FlagN(status) = Bit7(v)
    /\ FlagC(status) = FlagC(pre.status)
    /\ FlagV(status) = FlagV(pre.status)
    /\ FlagD(status) = FlagD(pre.status)
    /\ FlagI(status) = FlagI(pre.status)

\* C7: LDA, LDX and LDY in every addressing mode leave the operand byte v in their
\* register, set Z iff v = 0 and N to bit 7 of v, and leave C, V, D and I alone.
C7_Loads ==
    /\ Executed("lda") => Loaded(reg_a, OperandValue)
    /\ Executed("ldx") => Loaded(index_reg_x, OperandValue)
    /\ Executed("ldy") => Loaded(index_reg_y, OperandValue)

\* LDA ($24),Y loaded 0x80 from 0x0205 with C, V, D and I set and A = 0x55 before
C7_Witness ==
    /\ Executed("lda")
    /\ last.code = \hB1
    /\ pre.reg_a = \h55
    /\ reg_a = \h80
    /\ mem_read(Self, \h0205) = \h80
    /\ FlagC(status) /\ FlagV(status) /\ FlagD(status) /\ FlagI(status)

CarryIn == IF FlagC(pre.status) THEN 1 ELSE 0

Added(sum) ==
    /\ reg_a = sum % 256
    /\ FlagC(status) = (sum > \hFF)
    /\ FlagZ(status) = (sum % 256 = 0)
    /\ FlagN(status) = Bit7(sum % 256)

\* C8: ADC leaves (A + M + C) mod 256 in A, sets C iff A + M + C > 0xFF, Z iff the
\* new A is 0 and N to bit 7 of the new A.
C8_Adc == Executed("adc") => Added(pre.reg_a + OperandValue + CarryIn)

C8_Witness ==
    /\ Executed("adc")
    /\ pre.reg_a = \hFF
    /\ OperandValue = \hFF
    /\ CarryIn = 1
    /\ reg_a = \hFF
    /\ FlagC(status)

AdcOutcome(c) ==
    <<c.reg_a, FlagC(c.status), FlagV(c.status), FlagZ(c.status), FlagN(c.status)>>

\* C9: with carry-in 0, ADC of M to A gives the same A, C, V, Z and N as ADC of A to
\* M: the executed step agrees with the addition applied to the swapped operands.
C9_AdcCommutes ==
    (Executed("adc") /\ CarryIn = 0) =>
        AdcOutcome(Self) = AdcOutcome(add_value([pre EXCEPT !.reg_a = OperandValue], pre.reg_a))

C9_Witness ==
    /\ Executed("adc")
    /\ CarryIn = 0
    /\ pre.reg_a = \h80
    /\ OperandValue = \h00
    /\ reg_a = \h80
    /\ ~FlagV(status)

Compared(reg, v) ==
    /\ <<reg_a, index_reg_x, index_reg_y, sp>> =
            <<pre.reg_a, pre.index_reg_x, pre.index_reg_y, pre.sp>>
    /\ memory = pre.memory
    /\ FlagC(status) = (reg >= v)
    /\ FlagZ(status) = (reg = v)
    /\ FlagN(status) = Bit7((reg - v) % 256)
    /\ FlagV(status) = FlagV(pre.status)

\* C10: CMP, CPX and CPY leave registers and memory alone, set C iff the register is
\* >= the operand, Z iff they are equal, N to bit 7 of (register - operand) mod 256,
\* and leave V alone.
C10_Compare ==
    /\ Executed("cmp") => Compared(pre.reg_a, OperandValue)
    /\ Executed("cpx") => Compared(pre.index_reg_x, OperandValue)
    /\ Executed("cpy") => Compared(pre.index_reg_y, OperandValue)

\* CPX with X = M = 0x80 and V set before: C and Z set, N clear, V still set
C10_Witness ==
    /\ Executed("cpx")
    /\ pre.index_reg_x = \h80
    /\ OperandValue = \h80
    /\ FlagC(status) /\ FlagZ(status) /\ ~FlagN(status) /\ FlagV(status)

\* the last two steps of the run executed the opcodes first and second, and the second
\* has just been made
TwoSteps(first, second) ==
    /\ last.op = "step"
    /\ last.ret = "continue"
    /\ Len(trail) = 2
    /\ trail[1].code = first
    /\ trail[1].ret = "continue"
    /\ trail[2].code = second

\* C11: PHA then PLA leaves in A the byte A held at the PHA, PHP then PLP leaves in
\* status the byte status held at the PHP, all 8 bits of it; in both cases the stack
\* pointer is back at its value before the push.
C11_PushPull ==
    /\ TwoSteps(\h48, \h68) => reg_a = trail[1].cpu.reg_a /\ sp = trail[1].cpu.sp
    /\ TwoSteps(\h08, \h28) => status = trail[1].cpu.status /\ sp = trail[1].cpu.sp

\* status 0x30 (bits 4 and 5) pushed at sp 0x00, overwritten by the hook, pulled back
C11_Witness ==
    /\ TwoSteps(\h08, \h28)
    /\ trail[1].cpu.status = \h30
    /\ trail[1].cpu.sp = \h00
    /\ trail[2].cpu.status = \hFF
    /\ trail[2].cpu.sp = \hFF
    /\ status = \h30
    /\ sp = \h00

\* C12: rotate-left then rotate-right, or rotate-right then rotate-left, of the
\* accumulator or of one memory byte leaves the target and the Carry flag as they
\* were before the two steps.
C12_RotateRoundTrip ==
    /\ (TwoSteps(\h2A, \h6A) \/ TwoSteps(\h6A, \h2A)) =>
            /\ reg_a = trail[1].cpu.reg_a
            /\ FlagC(status) = FlagC(trail[1].cpu.status)
    /\ (TwoSteps(\h26, \h66) \/ TwoSteps(\h66, \h26)) =>
            /\ mem_read(Self, \h10) = mem_read(trail[1].cpu, \h10)
            /\ FlagC(status) = FlagC(trail[1].cpu.status)

\* the last operation was a step that executed the opcode
Stepped(code) == last.op = "step" /\ last.ret = "continue" /\ last.code = code

\* the 16-bit little-endian operand of the instruction whose opcode is at c.pc
Operand16(c) == mem_read(c, c.pc + 1) + 256 * mem_read(c, c.pc + 2)

\* C13: after a JSR at a whose target t holds RTS, the next step is that RTS (pc is
\* t), and after the two steps pc is a + 3 and the stack pointer is what it was
\* before the call.
C13_CallReturn ==
    /\ (Stepped(\h20) /\ mem_read(pre, Operand16(pre)) = \h60) => pc = Operand16(pre)
    /\ (TwoSteps(\h20, \h60) /\ trail[2].cpu.pc = Operand16(trail[1].cpu)) =>
            /\ pc = trail[1].cpu.pc + 3
            /\ sp = trail[1].cpu.sp

\* the condition of a branch opcode on the status byte st
Taken(code, st) ==
    CASE code = \h90 -> ~FlagC(st)
      [] code = \hB0 -> FlagC(st)
      [] code = \hF0 -> FlagZ(st)
      [] code = \hD0 -> ~FlagZ(st)
      [] code = \h30 -> FlagN(st)
      [] code = \h10 -> ~FlagN(st)
      [] code = \h50 -> ~FlagV(st)
      [] code = \h70 -> FlagV(st)

Signed(d) == IF d >= 128 THEN d - 256 ELSE d

BranchedFrom(a, d) ==
    /\ pc = IF Taken(last.code, pre.status) THEN (a + 2 + Signed(d)) % 65536 ELSE a + 2
    /\ Registers(Self) = Registers(pre)
    /\ memory = pre.memory

\* C14: a branch at a with operand byte d leaves pc at (a + 2 + signed(d)) mod 2^16 if
\* its condition holds and at a + 2 if not, and changes nothing but pc.
C14_Branch ==
    (last.op = "step" /\ last.ret = "continue" /\ last.code \in BranchOpcodes) =>
        BranchedFrom(pre.pc, mem_read(pre, pre.pc + 1))

\* the operand address of the executed instruction, resolved in the state before it
OperandAddress ==
    get_operand_address([pre EXCEPT !.pc = pre.pc + 1], OPCODES_MAP[last.code].mode)

\* after is before + delta modulo 256, Z and N follow it, C and V are as before the step
SteppedBy(before, after, delta) ==
    /\ after = (before + delta) % 256
    /\ FlagZ(status) = (after = 0)
    /\ FlagN(status) = Bit7(after)
    /\ FlagC(status) = FlagC(pre.status)
    /\ FlagV(status) = FlagV(pre.status)

\* C15: INC, DEC, INX, INY, DEX and DEY add or subtract 1 modulo 256, set Z and N from
\* the result and leave C and V alone; X = 0xFF followed by two INX gives X = 0x01.
C15_IncDec ==
    /\ Stepped(\hE8) => SteppedBy(pre.index_reg_x, index_reg_x, 1)
    /\ Stepped(\hC8) => SteppedBy(pre.index_reg_y, index_reg_y, 1)
    /\ Stepped(\hCA) => SteppedBy(pre.index_reg_x, index_reg_x, -1)
    /\ Stepped(\h88) => SteppedBy(pre.index_reg_y, index_reg_y, -1)
    /\ Executed("inc") => SteppedBy(OperandValue, mem_read(Self, OperandAddress), 1)
    /\ Executed("dec") => SteppedBy(OperandValue, mem_read(Self, OperandAddress), -1)
    /\ (TwoSteps(\hE8, \hE8) /\ trail[1].cpu.index_reg_x = \hFF) => index_reg_x = \h01

C15_Witness ==
    /\ TwoSteps(\hE8, \hE8)
    /\ trail[1].cpu.index_reg_x = \hFF
    /\ trail[2].cpu.index_reg_x = \h00
    /\ FlagZ(trail[2].cpu.status)
    /\ index_reg_x = \h01
    /\ FlagC(status) /\ FlagV(status) /\ ~FlagZ(status) /\ ~FlagN(status)

\* a and m have no set bit in common
Disjoint(a, m) == \A k \in 0..7 : ~((a \div 2 ^ k) % 2 = 1 /\ (m \div 2 ^ k) % 2 = 1)

\* C16: BIT sets Z exactly when A AND m is 0, copies bit 6 of m to V and bit 7 of m
\* to N, and leaves A, X, Y, Carry and memory unchanged.
C16_Bit ==
    Executed("bit") =>
        /\ FlagZ(status) = Disjoint(pre.reg_a, OperandValue)
        /\ FlagV(status) = ((OperandValue \div 64) % 2 = 1)
        /\ FlagN(status) = (OperandValue >= 128)
        /\ reg_a = pre.reg_a
        /\ index_reg_x = pre.index_reg_x
        /\ index_reg_y = pre.index_reg_y
        /\ FlagC(status) = FlagC(pre.status)
        /\ memory = pre.memory

C16_Witness ==
    /\ Executed("bit")
    /\ pre.reg_a = \h3F
    /\ OperandValue = \hC0
    /\ FlagC(pre.status) /\ ~FlagZ(pre.status)
    /\ FlagZ(status) /\ FlagV(status) /\ FlagN(status) /\ FlagC(status)
    /\ reg_a = \h3F

\* C17: a step that executes an instruction other than a jump, branch, call, return
\* or halt leaves pc at the opcode's address plus the table's length of the instruction.
C17_Advance ==
    (/\ last.op = "step"
     /\ last.ret = "continue"
     /\ last.code \in DOMAIN OPCODES_MAP
     /\ Arm(last.code) \notin ControlArms) =>
        pc = pre.pc + OPCODES_MAP[last.code].len

C17_Witness ==
    /\ Executed("lda")
    /\ last.code = \hAD
    /\ pre.pc = \h06FE
    /\ pc = \h0701

\* where JMP indirect through p fetches the high byte of its target
HighByteAt(p) == IF p % 256 = \hFF THEN p - \hFF ELSE p + 1

IndirectTarget(c, p) == mem_read(c, p) + 256 * mem_read(c, HighByteAt(p))

\* C18: after JMP absolute pc is the operand, for every target; after JMP indirect
\* through p pc is mem[p] + 256 * mem[q], q the next address or, when the low byte of
\* p is 0xFF, the start of p's page.
C18_Jump ==
    /\ Stepped(\h4C) => pc = Operand16(pre)
    /\ Stepped(\h6C) => pc = IndirectTarget(pre, Operand16(pre))

\* the two bytes of ret are on the stack from s downwards and sp is two below s
PushedFrom(s, ret) ==
    /\ mem_read(Self, \h0100 + s) = Hi(ret)
    /\ mem_read(Self, \h0100 + ((s + 255) % 256)) = Lo(ret)
    /\ sp = (s + 254) % 256

\* C19: JSR at a with stack pointer s writes the high byte of a + 2 at 0x0100 + s and
\* the low byte at 0x0100 + ((s - 1) mod 256), leaves sp at (s - 2) mod 256 and sets pc
\* to the operand, for every target.
C19_Jsr ==
    Stepped(\h20) => PushedFrom(pre.sp, pre.pc + 2) /\ pc = Operand16(pre)

\* the byte k places above stack pointer s, in the state before the step
Stacked(s, k) == mem_read(pre, \h0100 + ((s + k) % 256))

\* C20: RTI with stack pointer s sets status to the byte at 0x0100 + ((s + 1) mod 256),
\* pc to the bytes at s + 2 (low) and s + 3 (high) with nothing added, and sp to
\* (s + 3) mod 256.
C20_Rti ==
    Stepped(\h40) =>
        /\ status = Stacked(pre.sp, 1)
        /\ pc = Stacked(pre.sp, 2) + 256 * Stacked(pre.sp, 3)
        /\ sp = (pre.sp + 3) % 256

C20_Witness ==
    /\ Stepped(\h40)
    /\ pre.sp = \hFE
    /\ Stacked(pre.sp, 1) = \h81
    /\ Stacked(pre.sp, 2) = \hFF
    /\ Stacked(pre.sp, 3) = \h12
    /\ status = \h81
    /\ pc = \h12FF
    /\ sp = \h01

\* the byte as a two's-complement number
SignedByte(v) == IF v >= 128 THEN v - 256 ELSE v

\* C21: ADC sets Overflow iff signed(a) + signed(m) + c is outside -128..127, which is
\* when a and m have the same sign bit and the result has the other one; a is the
\* accumulator before the instruction.
C21_AdcOverflow ==
    Executed("adc") =>
        /\ FlagV(status) =
            (SignedByte(pre.reg_a) + SignedByte(OperandValue) + CarryIn \notin -128..127)
        /\ FlagV(status) =
            (Bit7(pre.reg_a) = Bit7(OperandValue) /\ Bit7(reg_a) # Bit7(pre.reg_a))

C21_Witness ==
    /\ Executed("adc")
    /\ pre.reg_a = \h7F
    /\ OperandValue = \h00
    /\ CarryIn = 1
    /\ reg_a = \h80
    /\ FlagV(status)

\* the state before the step with the opcode fetched and the operand byte replaced
WithOperand(value) ==
    mem_write([pre EXCEPT !.pc = pre.pc + 1], OperandAddress, value)

\* C22: SBC with operand m gives the same A, C, V, Z and N as ADC with operand
\* 255 - m from the same state.
C22_SbcAsAdc ==
    Executed("sbc") =>
        AdcOutcome(Self) =
            AdcOutcome(adc(WithOperand(255 - OperandValue), OPCODES_MAP[last.code].mode))

C22_Witness ==
    /\ Executed("sbc")
    /\ pre.reg_a = \h80
    /\ OperandValue = \h01
    /\ CarryIn = 1
    /\ AdcOutcome(Self) = <<\h7F, TRUE, TRUE, FALSE, FALSE>>
    /\ AdcOutcome(adc(WithOperand(\hFE), "Immediate")) = <<\h7F, TRUE, TRUE, FALSE, FALSE>>

\* the borrow SBC takes: 1 - carry-in
Borrow == 1 - CarryIn

\* C23: SBC leaves (a - m - (1 - c)) mod 256 in A, sets Carry iff a >= m + (1 - c) and
\* Overflow iff signed(a) - signed(m) - (1 - c) is outside -128..127.
C23_Sbc ==
    Executed("sbc") =>
        /\ reg_a = (pre.reg_a - OperandValue - Borrow) % 256
        /\ FlagC(status) = (pre.reg_a >= OperandValue + Borrow)
        /\ FlagV(status) =
            (SignedByte(pre.reg_a) - SignedByte(OperandValue) - Borrow \notin -128..127)

C23_Witness ==
    /\ Executed("sbc")
    /\ pre.reg_a = \h00
    /\ OperandValue = \hFF
    /\ CarryIn = 0
    /\ reg_a = \h00
    /\ ~FlagC(status)
    /\ ~FlagV(status)
    /\ FlagZ(status)

\* result is the expected byte, Carry is the bit that left, Z and N follow the result
Shifted(result, expected, lost) ==
    /\ result = expected
    /\ FlagC(status) = lost
    /\ FlagZ(status) = (result = 0)
    /\ FlagN(status) = Bit7(result)

RolOf(v) == ((v * 2) % 256) + CarryIn
RorOf(v) == (v \div 2) + (128 * CarryIn)

\* C24: ROL yields ((v * 2) mod 256) + c with Carry = bit 7 of v, ROR yields
\* (v div 2) + 128 * c with Carry = bit 0 of v, c the Carry before the instruction;
\* Z and N follow the result; on the accumulator and on memory.
C24_Rotate ==
    /\ Stepped(\h2A) => Shifted(reg_a, RolOf(pre.reg_a), Bit7(pre.reg_a))
    /\ Stepped(\h6A) => Shifted(reg_a, RorOf(pre.reg_a), pre.reg_a % 2 = 1)
    /\ Executed("rol") =>
        Shifted(mem_read(Self, OperandAddress), RolOf(OperandValue), Bit7(OperandValue))
    /\ Executed("ror") =>
        Shifted(mem_read(Self, OperandAddress), RorOf(OperandValue), OperandValue % 2 = 1)

\* memory is as before the step except, possibly, at the addresses in written
OnlyWritten(written) ==
    \A a \in (DOMAIN memory \cup DOMAIN pre.memory) \ written :
        mem_read(Self, a) = mem_read(pre, a)

\* X, Y and the stack pointer are as before the step
IndexAndStackKept ==
    <<index_reg_x, index_reg_y, sp>> = <<pre.index_reg_x, pre.index_reg_y, pre.sp>>

\* C25: ASL yields (v * 2) mod 256 with Carry = bit 7 of v, LSR yields v div 2 with
\* Carry = bit 0 of v and Negative clear; Z and N follow the result; the result goes
\* to the accumulator or to the addressed byte and nothing else is written.
C25_Shift ==
    /\ Stepped(\h0A) =>
        /\ Shifted(reg_a, (pre.reg_a * 2) % 256, Bit7(pre.reg_a))
        /\ OnlyWritten({}) /\ IndexAndStackKept
    /\ Stepped(\h4A) =>
        /\ Shifted(reg_a, pre.reg_a \div 2, pre.reg_a % 2 = 1)
        /\ ~FlagN(status)
        /\ OnlyWritten({}) /\ IndexAndStackKept
    /\ Executed("asl") =>
        /\ Shifted(mem_read(Self, OperandAddress), (OperandValue * 2) % 256,
                   Bit7(OperandValue))
        /\ OnlyWritten({OperandAddress}) /\ IndexAndStackKept /\ reg_a = pre.reg_a
    /\ Executed("lsr") =>
        /\ Shifted(mem_read(Self, OperandAddress), OperandValue \div 2,
                   OperandValue % 2 = 1)
        /\ ~FlagN(status)
        /\ OnlyWritten({OperandAddress}) /\ IndexAndStackKept /\ reg_a = pre.reg_a

C25_Witness ==
    /\ Executed("lsr")
    /\ last.code = \h5E
    /\ OperandValue = \h81
    /\ mem_read(Self, OperandAddress) = \h40
    /\ FlagC(status) /\ ~FlagN(status) /\ ~FlagZ(status)
    /\ reg_a = \h55

\* the arms that write a byte and define Zero/Negative from it, by their target
WritesA ==
    {"lda", "txa", "and", "ora", "eor", "adc", "sbc", "asl_accumulator", "lsr_accumulator",
     "rol_accumulator", "ror_accumulator"}
WritesX == {"ldx", "tax", "inx", "dex"}
WritesY == {"ldy", "iny", "dey"}
WritesMemory == {"inc", "dec", "asl", "lsr", "rol", "ror"}

\* Zero and Negative describe the byte r
FlagsOf(r) == FlagZ(status) = (r = 0) /\ FlagN(status) = Bit7(r)

\* the status byte with Zero and Negative masked out
OtherFlags(s) == s - (IF FlagZ(s) THEN 2 ELSE 0) - (IF FlagN(s) THEN 128 ELSE 0)

ExecutedOneOf(arms) == \E arm \in arms : Executed(arm)

\* C26: after every load, transfer, increment/decrement, logical, add/subtract and
\* shift/rotate instruction Zero and Negative describe the byte it wrote to its
\* register or memory target; logical and transfer instructions change no other flag.
C26_FlagsFresh ==
    /\ ExecutedOneOf(WritesA) => FlagsOf(reg_a)
    /\ ExecutedOneOf(WritesX) => FlagsOf(index_reg_x)
    /\ ExecutedOneOf(WritesY) => FlagsOf(index_reg_y)
    /\ ExecutedOneOf(WritesMemory) => FlagsOf(mem_read(Self, OperandAddress))
    /\ ExecutedOneOf({"and", "ora", "eor", "tax", "txa"}) =>
        OtherFlags(status) = OtherFlags(pre.status)

C26_Witness ==
    /\ Executed("tax")
    /\ pre.reg_a = \h00
    /\ pre.index_reg_x = \hFF
    /\ pre.status = \hFF
    /\ index_reg_x = \h00
    /\ status = \h7F

\* the status byte s with bit k made b
WithBit(s, k, b) == s - (((s \div 2 ^ k) % 2) * 2 ^ k) + (IF b THEN 2 ^ k ELSE 0)

\* the step made bit k of status b, advanced pc by 1 and changed nothing else
FlagMade(k, b) ==
    /\ status = WithBit(pre.status, k, b)
    /\ <<reg_a, index_reg_x, index_reg_y, sp>> =
            <<pre.reg_a, pre.index_reg_x, pre.index_reg_y, pre.sp>>
    /\ memory = pre.memory
    /\ pc = pre.pc + 1

\* C27: CLC, SEC, CLD, SED, CLI and SEI change exactly their status bit (Carry 0,
\* Decimal 3, Interrupt-Disable 2), leave the other seven bits, the registers, the
\* stack pointer and memory unchanged, and advance pc by 1.
C27_FlagOps ==
    /\ Stepped(\h18) => FlagMade(0, FALSE)
    /\ Stepped(\h38) => FlagMade(0, TRUE)
    /\ Stepped(\hD8) => FlagMade(3, FALSE)
    /\ Stepped(\hF8) => FlagMade(3, TRUE)
    /\ Stepped(\h58) => FlagMade(2, FALSE)
    /\ Stepped(\h78) => FlagMade(2, TRUE)

C27_Witness ==
    /\ Stepped(\h18)
    /\ pre.status = \hFF
    /\ status = \hFE
    /\ reg_a = \h11 /\ index_reg_x = \h22 /\ index_reg_y = \h33
    /\ pc = pre.pc + 1

\* the last step fetched the opcode and ended in a fault
Faulted(code) == last.op = "step" /\ last.code = code /\ last.ret = "panic"

\* C28: every address 0x0000..0xFFFF can be written and read by instructions (STA a
\* and the LDX a after it complete, and X is the byte stored), and a 16-bit read at
\* any address, 0xFFFF included, completes (the operand fetch of LDA absolute, the
\* pointer read of JMP indirect).
C28_FullMemory ==
    /\ ~Faulted(\h8D)
    /\ ~Faulted(\hAE)
    /\ ~Faulted(\hAD)
    /\ ~Faulted(\h6C)
    /\ (TwoSteps(\h8D, \hAE) /\ Operand16(trail[1].cpu) = Operand16(trail[2].cpu)) =>
            index_reg_x = trail[1].cpu.reg_a

\* the address in the stack page of the byte k places above stack pointer s
StackAddress(s, k) == \h0100 + ((s + k) % 256)

\* the step pushed the bytes (first pushed first): they are in the stack page from
\* the old stack pointer downwards, nothing else in memory changed, and the stack
\* pointer is lower by their number modulo 256
Pushed(bytes) ==
    /\ \A i \in 1..Len(bytes) :
            mem_read(Self, StackAddress(pre.sp, 256 - (i - 1))) = bytes[i]
    /\ OnlyWritten({StackAddress(pre.sp, 256 - (i - 1)) : i \in 1..Len(bytes)})
    /\ sp = (pre.sp + 256 - Len(bytes)) % 256

\* the step pulled the values (first pulled first) from the stack page upwards of the
\* old stack pointer, wrote nothing, and the stack pointer is higher by their number
\* modulo 256
Pulled(values) ==
    /\ \A i \in 1..Len(values) : values[i] = Stacked(pre.sp, i)
    /\ memory = pre.memory
    /\ sp = (pre.sp + Len(values)) % 256

\* C29: the stack pointer is a byte that wraps modulo 256 and every access of PHA,
\* PHP, PLA, PLP, JSR, RTS and RTI is to the stack page 0x0100..0x01FF.
C29_StackPage ==
    /\ sp \in 0..255
    /\ Stepped(\h48) => Pushed(<<pre.reg_a>>)
    /\ Stepped(\h08) => Pushed(<<pre.status>>)
    /\ Stepped(\h20) => Pushed(<<Hi(pre.pc + 2), Lo(pre.pc + 2)>>)
    /\ Stepped(\h68) => Pulled(<<reg_a>>)
    /\ Stepped(\h28) => Pulled(<<status>>)
    /\ Stepped(\h60) => Pulled(<<Lo(pc + 65535), Hi(pc + 65535)>>)
    /\ Stepped(\h40) => Pulled(<<status, Lo(pc), Hi(pc)>>)

C29_Witness ==
    /\ Stepped(\h20)
    /\ pre.sp = \h00
    /\ pre.pc = \h065F
    /\ sp = \hFE
    /\ mem_read(Self, \h0100) = \h06
    /\ mem_read(Self, \h01FF) = \h61

\* the last step aborted at the fetch or in an instruction the match handles
StepAborted ==
    /\ last.op = "step"
    /\ last.ret = "panic"
    /\ last.code = -1 \/ (last.code \in DOMAIN OPCODES_MAP /\ Arm(last.code) # "todo")

\* C30: the arithmetic of a step wraps and never faults: no register, pointer or
\* address value makes a step abort, and RTS leaves the popped address + 1 modulo
\* 2^16 in pc.
C30_Wraps ==
    /\ ~StepAborted
    /\ Stepped(\h60) => pc = (Stacked(pre.sp, 1) + (256 * Stacked(pre.sp, 2)) + 1) % 65536

\* the operand byte that follows the opcode of the last step
OperandByte == mem_read(pre, pre.pc + 1)

\* the little-endian word whose low byte is at lo_at and high byte at hi_at, in the
\* memory before the step
WordAt(lo_at, hi_at) == mem_read(pre, lo_at) + (256 * mem_read(pre, hi_at))

\* the operand address of the last step as the addressing modes are specified
PageZeroAddress(mode) ==
    CASE mode = "ZeroPage_X" -> (OperandByte + pre.index_reg_x) % 256
      [] mode = "ZeroPage_Y" -> (OperandByte + pre.index_reg_y) % 256
      [] mode = "Indirect_X" ->
            WordAt((OperandByte + pre.index_reg_x) % 256,
                   (OperandByte + pre.index_reg_x + 1) % 256)
      [] mode = "Indirect_Y" ->
            (WordAt(OperandByte, (OperandByte + 1) % 256) + pre.index_reg_y) % 65536

PageZeroModes == {"ZeroPage_X", "ZeroPage_Y", "Indirect_X", "Indirect_Y"}

\* the step stored v at the specified address and changed nothing else but pc, which
\* is past the two bytes of the instruction
StoredAt(mode, v) ==
    /\ mem_read(Self, PageZeroAddress(mode)) = v
    /\ OnlyWritten({PageZeroAddress(mode)})
    /\ <<reg_a, index_reg_x, index_reg_y, sp, status>> =
            <<pre.reg_a, pre.index_reg_x, pre.index_reg_y, pre.sp, pre.status>>
    /\ pc = pre.pc + 2

\* the step loaded r from the specified address and wrote no memory and no index
\* register or stack pointer other than r; pc is past the instruction
LoadedFrom(mode, r, others) ==
    /\ r = mem_read(pre, PageZeroAddress(mode))
    /\ memory = pre.memory
    /\ others
    /\ sp = pre.sp
    /\ pc = pre.pc + 2

\* C31: ZeroPage_X and ZeroPage_Y resolve to (b + index) mod 256; Indirect_X reads
\* its pointer at (b + X) mod 256 and (b + X + 1) mod 256; Indirect_Y reads its
\* pointer at b and (b + 1) mod 256 and adds Y modulo 2^16; resolving the address
\* changes neither pc nor any other state (a store changes the addressed byte only, a
\* load its register and flags only).
C31_PageZero ==
    /\ (last.op = "step" /\ last.code \in DOMAIN OPCODES_MAP
            /\ OPCODES_MAP[last.code].mode \in PageZeroModes) =>
        OperandAddress = PageZeroAddress(OPCODES_MAP[last.code].mode)
    /\ Stepped(\h95) => StoredAt("ZeroPage_X", pre.reg_a)
    /\ Stepped(\h96) => StoredAt("ZeroPage_Y", pre.index_reg_x)
    /\ Stepped(\h81) => StoredAt("Indirect_X", pre.reg_a)
    /\ Stepped(\h91) => StoredAt("Indirect_Y", pre.reg_a)
    /\ Stepped(\hB4) =>
        LoadedFrom("ZeroPage_X", index_reg_y,
                   reg_a = pre.reg_a /\ index_reg_x = pre.index_reg_x)
    /\ Stepped(\hB6) =>
        LoadedFrom("ZeroPage_Y", index_reg_x,
                   reg_a = pre.reg_a /\ index_reg_y = pre.index_reg_y)
    /\ Stepped(\hA1) =>
        LoadedFrom("Indirect_X", reg_a,
                   index_reg_x = pre.index_reg_x /\ index_reg_y = pre.index_reg_y)
    /\ Stepped(\hB1) =>
        LoadedFrom("Indirect_Y", reg_a,
                   index_reg_x = pre.index_reg_x /\ index_reg_y = pre.index_reg_y)

\* STA (0x80,X) with X = 0x7F: the pointer's low byte is at 0xFF, its high byte at 0x00
C31_Witness ==
    /\ Stepped(\h81)
    /\ OperandByte = \h80
    /\ pre.index_reg_x = \h7F
    /\ mem_read(pre, \hFF) = \h34
    /\ mem_read(pre, \h00) = \h02
    /\ mem_read(pre, \h0234) = \h00
    /\ mem_read(Self, \h0234) = \h5A
    /\ pc = pre.pc + 2

\* bits 4 and 5 of a byte, and the byte without them
Unlisted(v) == (v \div 16) % 4
Listed(v) == v - (16 * Unlisted(v))

\* bits 4 and 5, bit 4 alone, bit 5 alone
UnlistedMasks == {\h30, \h10, \h20}

\* the CPU c with the status bits of the mask ms flipped, and the bits of the mask mm
\* flipped in the memory byte at d
Twin(c, ms, d, mm) ==
    [c EXCEPT !.status = BitXor(@, ms),
              !.memory = StoreByte(@, d, BitXor(mem_read(c, d), mm))]

\* the build the run has gone through (either, while no operation has overflowed)
Build == overflow_checks = "on"

\* the memory addresses the instruction at c.pc reads as code, pointer or data, the
\* byte that PLP and RTI pull into status apart
PointerBytes(c, mode) ==
    CASE mode = "Indirect_X" ->
            {(mem_read(c, c.pc + 1) + c.index_reg_x) % 256,
             (mem_read(c, c.pc + 1) + c.index_reg_x + 1) % 256}
      [] mode = "Indirect_Y" -> {mem_read(c, c.pc + 1), (mem_read(c, c.pc + 1) + 1) % 256}
      [] OTHER -> {}

OperandRead(c, arm, mode) ==
    IF arm \in ModeArms \ {"sta", "stx", "sty"}
    THEN {get_operand_address([c EXCEPT !.pc = c.pc + 1], mode)}
    ELSE {}

JumpBytes(c, arm) ==
    IF arm = "jmp_indirect"
    THEN {Operand16(c), (Operand16(c) + 1) % 65536, Operand16(c) - (Operand16(c) % 256)}
    ELSE {}

PulledData(c, arm) ==
    CASE arm = "pla" -> {StackAddress(c.sp, 1)}
      [] arm = "rts" -> {StackAddress(c.sp, 1), StackAddress(c.sp, 2)}
      [] arm = "rti" -> {StackAddress(c.sp, 2), StackAddress(c.sp, 3)}
      [] OTHER -> {}

ReadsAs(c, code) ==
    {c.pc + k : k \in 0..(OPCODES_MAP[code].len - 1)}
        \cup PointerBytes(c, OPCODES_MAP[code].mode)
        \cup OperandRead(c, Arm(code), OPCODES_MAP[code].mode)
        \cup JumpBytes(c, Arm(code))
        \cup PulledData(c, Arm(code))

ReadsOf(c) ==
    IF mem_read(c, c.pc) \in DOMAIN OPCODES_MAP THEN ReadsAs(c, mem_read(c, c.pc)) ELSE {c.pc}

\* the bytes the last step stored verbatim from status
StoredByPhp(c, code) == IF code = \h08 THEN {StackAddress(c.sp, 0)} ELSE {}

\* the CPUs c and t have the same pc, A, X, Y, stack pointer and status bits 0-3 and
\* 6-7, and the same memory except for bits 4 and 5 of the bytes at the addresses in
\* apart
Agree(c, t, apart) ==
    /\ <<t.pc, t.reg_a, t.index_reg_x, t.index_reg_y, t.sp>> =
            <<c.pc, c.reg_a, c.index_reg_x, c.index_reg_y, c.sp>>
    /\ Listed(t.status) = Listed(c.status)
    /\ \A a \in DOMAIN c.memory \cup DOMAIN t.memory :
            IF a \in apart
            THEN Listed(mem_read(t, a)) = Listed(mem_read(c, a))
            ELSE mem_read(t, a) = mem_read(c, a)

\* the step from the twin t ended as the last step did and left a CPU that agrees
\* with this one
StepAgrees(t, apart) ==
    /\ t.ret = last.ret
    /\ t.ret # "panic" => Agree(Self, t.cpu, apart)

\* the last step, made from a CPU that differs from the one it was made from in
\* status bits 4 and 5 (ms) and in bits 4 and 5 of the byte at d (mm), comes out the
\* same but for those bits
Unwinds(ms, d, mm) ==
    StepAgrees(step(Twin(pre, ms, d, mm), Build), {d} \cup StoredByPhp(pre, last.code))

\* the three bytes above the stack pointer: what pulls read
Pullable(c) == {StackAddress(c.sp, k) : k \in 1..3}

\* C32 as amended: an instruction reads status bits 4 and 5 only to store them (PHP),
\* and changes them only by pulling status (PLP, RTI).  A step made from two CPUs that
\* differ only in status bits 4 and 5, and in bits 4 and 5 of a stack byte the
\* instruction does not read other than as the status PLP or RTI pulls, leaves the
\* same pc, A, X, Y, stack pointer and status bits 0-3 and 6-7, and the same memory
\* except for bits 4 and 5 of that byte and of the byte PHP stored.
C32_UnlistedBits ==
    last.op = "step" =>
        /\ \A ms \in UnlistedMasks : Unwinds(ms, 0, 0)
        /\ \A ms \in UnlistedMasks \cup {0}, mm \in UnlistedMasks :
                \A d \in Pullable(pre) \ ReadsOf(pre) : Unwinds(ms, d, mm)
        /\ (last.code \notin {\h28, \h40} \/ last.ret = "panic") =>
                Unlisted(status) = Unlisted(pre.status)

\* PLP pulls a status byte that PHP stored with bits 4 and 5 set; the stored byte of
\* the twin without them differs, and so do the bits pulled
C32_Witness ==
    /\ TwoSteps(\h08, \h28)
    /\ trail[1].cpu.status = \hFF
    /\ pre.status = \hFF
    /\ mem_read(pre, StackAddress(pre.sp, 1)) = \hFF
    /\ status = \hFF
    /\ step(Twin(pre, \h30, StackAddress(pre.sp, 1), \h30), Build).cpu.status = \hCF

\* the CPU after the last two steps, had the first been made with the status bits of
\* the mask ms flipped
AfterTwo(ms) == step(step(Twin(trail[1].cpu, ms, 0, 0), Build).cpu, Build)

\* the hook between the last two steps changed nothing
HookIdle == trail[2].cpu = step(trail[1].cpu, Build).cpu

\* C32 as stated: two CPUs that differ only in status bits 4 and 5, stepped through
\* the same instructions, have at every step the same pc, A, X, Y, stack pointer and
\* status bits 0-3 and 6-7, and the same memory except for bytes stored by PHP; bits
\* 4 and 5 are changed only by PLP and RTI.
C32_NoInfluence ==
    /\ last.op = "step" => \A ms \in UnlistedMasks : Unwinds(ms, 0, 0)
    /\ (last.op = "step" /\ Len(trail) = 2 /\ trail[1].ret = "continue" /\ HookIdle) =>
            \A ms \in UnlistedMasks :
                StepAgrees(AfterTwo(ms), StoredByPhp(trail[1].cpu, trail[1].code)
                                            \cup StoredByPhp(pre, last.code))
    /\ (last.op = "step" /\ last.code \notin {\h28, \h40}) =>
            Unlisted(status) = Unlisted(pre.status)

\* C33: PLA (0x68) replaces the accumulator with the byte above the stack pointer and
\* increments the stack pointer, and changes no status bit and nothing else but pc: Zero
\* and Negative keep describing an earlier result.
C33_PlaKeepsFlags ==
    Stepped(\h68) =>
        /\ reg_a = Stacked(pre.sp, 1)
        /\ sp = (pre.sp + 1) % 256
        /\ status = pre.status
        /\ memory = pre.memory
        /\ <<index_reg_x, index_reg_y>> = <<pre.index_reg_x, pre.index_reg_y>>
        /\ pc = pre.pc + 1

\* PLA pulls 0x00 into an accumulator that held 0x81: Zero stays clear
C33_Witness ==
    /\ TwoSteps(\h48, \h68)
    /\ trail[1].cpu.reg_a = \h00
    /\ pre.reg_a = \h81
    /\ pre.status = \h00
    /\ reg_a = \h00
    /\ ~FlagZ(status)
    /\ sp = trail[1].cpu.sp

====
